---- MODULE Spec2Model ----
(***************************************************************************)
(* Model of pyhecate: the batch coordinator (PyHecate) and the per-video   *)
(* pipeline (PyHecateVideo) of src/pyhecate/__init__.py.                   *)
(*                                                                         *)
(* A file name is a sequence of one-character strings, a path is a         *)
(* sequence of names (the first name of an absolute path is the empty      *)
(* name, as in "/w/in".split("/")), and the file system is a function      *)
(* from absolute paths to entries.                                         *)
(***************************************************************************)
EXTENDS Integers, Sequences, FiniteSets, TLC

(***************************************************************************)
(* Bounds of the model.                                                    *)
(***************************************************************************)
\* largest number of entries in the listing of the input directory
MaxEntries == 3
\* longest video, in seconds, that Planning is run on
MaxSeconds == 3000
\* most streams in one answer of ffprobe when the probe is run on its own
MaxStreams == 3
\* most snapshots, and most per-shot GIFs, in an output root that
\* Reorganizing is run on
MaxShots == 2

(***************************************************************************)
(* Program constants.                                                      *)
(***************************************************************************)
ISUMFREQ == 30
VSUMLENGTH == 16
GIFWIDTH == 360

(***************************************************************************)
(* Characters, names and str().                                            *)
(***************************************************************************)
\* the characters the model uses, in code-point order
Alphabet ==
  << "-", ".", "/", "0", "1", "2", "3", "4", "5", "6", "7", "8", "9",
     "B", "M", "P", "_",
     "a", "b", "c", "f", "g", "i", "j", "m", "n", "o", "p", "s", "t",
     "u", "w", "x" >>

Ord(c) == CHOOSE i \in 1..Len(Alphabet) : Alphabet[i] = c

\* str.lower() on one character
LowerChar(c) ==
  CASE c = "B" -> "b"
    [] c = "M" -> "m"
    [] c = "P" -> "p"
    [] OTHER -> c

\* Lower leaving upper case alone
Lower_Identity(s) == s

\* str.lower()
Lower(s) == [k \in 1..Len(s) |-> LowerChar(s[k])]

\* str.endswith(suffix)
EndsWith(s, suffix) ==
  /\ Len(s) >= Len(suffix)
  /\ SubSeq(s, Len(s) - Len(suffix) + 1, Len(s)) = suffix

\* the order of Python's str comparison (code point by code point)
RECURSIVE StrLess(_, _)
StrLess(s, t) ==
  IF t = << >> THEN FALSE
  ELSE IF s = << >> THEN TRUE
  ELSE IF s[1] # t[1] THEN Ord(s[1]) < Ord(t[1])
  ELSE StrLess(Tail(s), Tail(t))

DigitChar(d) ==
  CASE d = 0 -> "0" [] d = 1 -> "1" [] d = 2 -> "2" [] d = 3 -> "3"
    [] d = 4 -> "4" [] d = 5 -> "5" [] d = 6 -> "6" [] d = 7 -> "7"
    [] d = 8 -> "8" [] d = 9 -> "9"

\* str(n) of a non-negative int, as f"...{n}" renders it
RECURSIVE IntStr(_)
IntStr(n) ==
  IF n < 10 THEN << DigitChar(n) >>
  ELSE Append(IntStr(n \div 10), DigitChar(n % 10))

\* literal pieces of file names
ExtMp4 == << ".", "m", "p", "4" >>
ExtJpg == << ".", "j", "p", "g" >>
ExtGif == << ".", "g", "i", "f" >>
SufSumMp4 == << "_", "s", "u", "m" >> \o ExtMp4
SufSumGif == << "_", "s", "u", "m" >> \o ExtGif
PreJpg == << "j", "p", "g", "-" >>
PreGif == << "g", "i", "f", "-" >>
PreGifsum == << "g", "i", "f", "s", "u", "m", "-" >>
PreMp4 == << "m", "p", "4", "-" >>

(***************************************************************************)
(* Paths (os.path).                                                        *)
(***************************************************************************)
\* an unset Optional[str] (None); "not x" is true of it
Unset == << >>

RootName == << >>
Cwd == << RootName, << "w" >> >>

IsAbs(p) == Len(p) > 0 /\ p[1] = RootName

\* os.path.abspath
AbsPath(p) == IF IsAbs(p) THEN p ELSE Cwd \o p

\* os.path.join(d, name) for a single relative name
Join(d, name) == Append(d, name)

\* os.path.split(p)[0] and [1]
SplitHead(p) == SubSeq(p, 1, Len(p) - 1)
SplitTail(p) == p[Len(p)]

\* os.path.splitext(name)[0]: the name up to its last dot, a leading dot
\* does not start an extension
LastDot(name) ==
  LET dots == {k \in 2..Len(name) : name[k] = "."}
  IN IF dots = {} THEN 0 ELSE CHOOSE k \in dots : \A j \in dots : j <= k

SplitExtRoot(name) ==
  IF LastDot(name) = 0 THEN name ELSE SubSeq(name, 1, LastDot(name) - 1)

\* the path as the string Python holds, character by character
RECURSIVE PathChars(_)
PathChars(p) ==
  IF Len(p) = 0 THEN << >>
  ELSE IF Len(p) = 1 THEN p[1]
  ELSE PathChars(SplitHead(p)) \o << "/" >> \o SplitTail(p)

(***************************************************************************)
(* The file system: a function from absolute paths to entries.             *)
(***************************************************************************)
DirEntry == [kind |-> "dir", by |-> "", run |-> 0]
FileEntry(by, run) == [kind |-> "file", by |-> by, run |-> run]

\* os.path.exists / isdir / isfile
Exists(f, p) == AbsPath(p) \in DOMAIN f
IsDir(f, p) == Exists(f, p) /\ f[AbsPath(p)].kind = "dir"
IsFile(f, p) == Exists(f, p) /\ f[AbsPath(p)].kind = "file"

\* the prefixes of a path below the root
Ancestors(p) == {SubSeq(p, 1, k) : k \in 2..Len(p)}

\* os.makedirs(p): the leaf and every missing intermediate directory
MakeDirs(f, p) ==
  LET new == Ancestors(AbsPath(p)) \ DOMAIN f
  IN [q \in DOMAIN f \cup new |-> IF q \in DOMAIN f THEN f[q] ELSE DirEntry]

\* os.makedirs(p) raises (NotADirectoryError, FileExistsError) when a
\* component of p is a file
MakeDirsRaises(f, p) ==
  \E q \in Ancestors(AbsPath(p)) : q \in DOMAIN f /\ f[q].kind = "file"

\* "if not os.path.exists(p): os.makedirs(p)"
EnsureDir(f, p) == IF Exists(f, p) THEN f ELSE MakeDirs(f, p)

Remove(f, p) == [q \in DOMAIN f \ {p} |-> f[q]]

Put(f, p, e) == [q \in DOMAIN f \cup {p} |-> IF q = p THEN e ELSE f[q]]

\* shutil.move(src, dst): into dst when dst is a directory, else a rename
\* that replaces dst
Move(f, src, dst) ==
  LET target == IF IsDir(f, dst) THEN Join(dst, SplitTail(src)) ELSE dst
  IN Put(Remove(f, src), target, f[src])

\* os.listdir(d): the names of the direct children
ListDir(f, d) == {SplitTail(q) : q \in {r \in DOMAIN f : Len(r) = Len(d) + 1 /\ SplitHead(r) = d}}

\* GlobExt matching every name
GlobExt_AnyName(f, d, ext) == {Join(d, n) : n \in ListDir(f, d)}

\* fnmatch of "*<ext>" as glob applies it: names starting with a dot do
\* not match a leading "*"
GlobExt(f, d, ext) ==
  {Join(d, n) : n \in {m \in ListDir(f, d) : EndsWith(m, ext) /\ m[1] # "."}}

\* PathLess with the order reversed
PathLess_Reversed(p, q) == StrLess(PathChars(q), PathChars(p))

\* p < q for two path strings
PathLess(p, q) == StrLess(PathChars(p), PathChars(q))

\* sorted(paths)
RECURSIVE SortPaths(_)
SortPaths(S) ==
  IF S = {} THEN << >>
  ELSE LET least == CHOOSE p \in S :
                      \A q \in S \ {p} : PathLess(p, q)
       IN << least >> \o SortPaths(S \ {least})

(***************************************************************************)
(* The metadata probe: PyHecateVideo._get_video_meta.                      *)
(***************************************************************************)
\* a stream of ffprobe's JSON; duration is in tenths of a second ("12.7"),
\* a missing key is the .get default 0
VStream(d, w, h) == [codec_type |-> "video", duration |-> d, width |-> w, height |-> h]
AStream == [codec_type |-> "audio", duration |-> 0, width |-> 0, height |-> 0]

\* int(float(duration))
IntOfFloat(tenths) == tenths \div 10

VideoMetadata(success, vseconds, vwidth, vheight, vaudio) ==
  [success |-> success, vseconds |-> vseconds, vwidth |-> vwidth,
   vheight |-> vheight, vaudio |-> vaudio]

\* the "for stream in streams" loop: the locals after the first k streams
RECURSIVE StreamLoop(_, _)
StreamLoop(streams, k) ==
  IF k = 0 THEN [vseconds |-> 0, vwidth |-> 0, vheight |-> 0, vaudio |-> FALSE]
  ELSE LET acc == StreamLoop(streams, k - 1)
           st == streams[k]
           vid == IF st.codec_type = "video"
                  THEN [acc EXCEPT !.vseconds = IntOfFloat(st.duration),
                                   !.vwidth = st.width,
                                   !.vheight = st.height]
                  ELSE acc
       IN IF st.codec_type = "audio" THEN [vid EXCEPT !.vaudio = TRUE] ELSE vid

\* GetVideoMeta failing only when both dimensions are zero
GetVideoMeta_BothZero(resp, present) ==
  LET parsed == resp.kind = "ok" /\ present
      loc == StreamLoop(resp.streams, Len(resp.streams))
  IN IF ~parsed THEN VideoMetadata(FALSE, 0, 0, 0, FALSE)
     ELSE VideoMetadata(~(loc.vwidth = 0 /\ loc.vheight = 0),
                        loc.vseconds, loc.vwidth, loc.vheight, loc.vaudio)

\* _get_video_meta: resp is what the ffprobe process did (kind "notfound",
\* "nonzero", "badjson" or "ok" with its streams), present is
\* os.path.exists(path) after ffprobe returned
GetVideoMeta(resp, present) ==
  LET parsed == resp.kind = "ok" /\ present
      loc == StreamLoop(resp.streams, Len(resp.streams))
  IN IF ~parsed THEN VideoMetadata(FALSE, 0, 0, 0, FALSE)
     ELSE VideoMetadata(~(loc.vwidth = 0 \/ loc.vheight = 0),
                        loc.vseconds, loc.vwidth, loc.vheight, loc.vaudio)

(***************************************************************************)
(* What the collaborators may answer.                                      *)
(***************************************************************************)
StreamLists ==
  { << VStream(30000, 640, 360), AStream >>,
    << VStream(127, 640, 360) >>,
    << VStream(3000, 0, 360), AStream >>,
    << AStream >> }

NoStreams == << >>

ProbeResponses ==
  {[kind |-> k, streams |-> NoStreams] : k \in {"notfound", "nonzero", "badjson"}}
    \cup {[kind |-> "ok", streams |-> s] : s \in StreamLists}

\* hecate: not found, exit code # 0, or exit code 0; wrote tells whether it
\* emitted the files it was asked for
HecateOutcomes ==
  {[kind |-> "notfound", wrote |-> FALSE]}
    \cup {[kind |-> k, wrote |-> w] : k \in {"nonzero", "ok"}, w \in BOOLEAN}

\* ffmpeg concat: building the graph raised ffmpeg.Error ("setup"), running
\* it raised ("raised"), exit code # 0 ("nonzero") or 0 ("ok"); wrote tells
\* whether a file was left at the output path
MuxOutcomes ==
  {[kind |-> k, wrote |-> w] : k \in {"raised", "nonzero"}, w \in BOOLEAN}
    \cup {[kind |-> "setup", wrote |-> FALSE], [kind |-> "ok", wrote |-> TRUE]}

(***************************************************************************)
(* The worlds the tool is started in.                                      *)
(***************************************************************************)
NameA == << "a" >> \o ExtMp4
NameAUpper == << "a", ".", "M", "P", "4" >>
NameBUpper == << "B", ".", "M", "P", "4" >>
NameC == << "c", ".", "t", "x", "t" >>
NameSub == << "s", "u", "b" >> \o ExtMp4
NameOutro == << "o", "u", "t", "r", "o" >> \o ExtMp4

InDirRel == << << "i", "n" >> >>
InDir == AbsPath(InDirRel)
MissingPath == Join(Cwd, << "n", "o", "p", "e" >>)
OutOverride == << << "o", "u", "t" >> >>
OutroPath == Join(Cwd, NameOutro)
\* an output root below the entry c.txt of the input directory
OutUnderFile == << << "i", "n" >>, NameC, << "o", "u", "t" >> >>

\* what the input directory may hold: regular files and one directory whose
\* name ends in .mp4
EntryKind(name) == IF name = NameSub THEN "dir" ELSE "file"
CandidateNames == {NameA, NameAUpper, NameBUpper, NameC, NameSub}
Listings == {S \in SUBSET CandidateNames : Cardinality(S) <= MaxEntries}

WorldFs(listing, withOutro) ==
  LET dirs == {Cwd, InDir} \cup {Join(InDir, n) : n \in {m \in listing : EntryKind(m) = "dir"}}
      files == {Join(InDir, n) : n \in {m \in listing : EntryKind(m) = "file"}}
                 \cup {Join(Join(InDir, n), NameA) : n \in {m \in listing : EntryKind(m) = "dir"}}
                 \cup (IF withOutro THEN {OutroPath} ELSE {})
  IN [q \in dirs \cup files |->
        IF q \in dirs THEN DirEntry ELSE FileEntry("input", 0)]

\* what earlier runs on a.mp4 (default output root) have left behind: the
\* video's output directory with a raw summary, and the mp4 directory with
\* a final summary and an outro-appended summary
PriorDir == Join(InDir, << "a" >>)
PriorMp4Dir == Join(PriorDir, PreMp4 \o IntStr(VSUMLENGTH))
PriorTmp == Join(PriorDir, << "a" >> \o SufSumMp4)
PriorSum == Join(PriorMp4Dir, << "a", "_", "s", "u", "m", "-" >> \o IntStr(VSUMLENGTH) \o ExtMp4)
PriorOut ==
  Join(PriorMp4Dir, << "a", "_", "o", "u", "t", "s", "u", "m", "-" >> \o IntStr(VSUMLENGTH) \o ExtMp4)

WithPrior(f) ==
  LET dirs == {PriorDir, PriorMp4Dir}
      files == {PriorTmp, PriorSum, PriorOut}
  IN [q \in DOMAIN f \cup dirs \cup files |->
        IF q \in dirs THEN DirEntry
        ELSE IF q \in files THEN FileEntry("prior", 0)
        ELSE f[q]]

(***************************************************************************)
(* State.                                                                  *)
(***************************************************************************)
VARIABLES
  args,            \* the arguments main() passes to PyHecate
  fs,              \* the file system
  trash,           \* what send2trash has put into the trash
  ph,              \* the PyHecate object: outdir, vpaths
  pc,              \* where the run is
  idx,             \* execute(): position of the for loop in vpaths
  all_successful,  \* execute(): the local all_successful
  result,          \* what execute() returned, once pc = "done"
  v,               \* the PyHecateVideo object of the video being processed
  ometa,           \* add_outro(): the local outro_meta
  runs,            \* history: one record per process_video call
  fs0,             \* history: the file system when process_video was entered
  exit_code,       \* main(): what sys.exit was called with, NotExited before
  probed,          \* history: the last direct call of _get_video_meta
  hecate,          \* history: the hecate call of the current pipeline
  mux              \* history: the ffmpeg concatenation of the current pipeline

vars ==
  << args, fs, trash, ph, pc, idx, all_successful, result, v, ometa, runs, fs0,
     exit_code, probed, hecate, mux >>

(***************************************************************************)
(* send2trash.                                                             *)
(***************************************************************************)
\* send2trash(p): the entry leaves the file system and lands in the trash
TrashFs(f, p) == Remove(f, AbsPath(p))
TrashBin(f, tr, p) == tr \cup {<< AbsPath(p), f[AbsPath(p)] >>}

(***************************************************************************)
(* PyHecateVideo.                                                          *)
(***************************************************************************)
NoMeta == VideoMetadata(FALSE, 0, 0, 0, FALSE)

\* PyHecateVideo.__init__: the attributes (the constructor also creates
\* outdir, see ProcessVideo)
NewVideo(path, outdir, a) ==
  [ gifwidth |-> a.gifwidth,
    vsumlength |-> a.vsumlength,
    mp4sumsuf |-> << "_", "s", "u", "m", "-" >> \o IntStr(a.vsumlength) \o ExtMp4,
    mp4outsuf |-> << "_", "o", "u", "t", "s", "u", "m", "-" >> \o IntStr(a.vsumlength) \o ExtMp4,
    path |-> path,
    outdir |-> outdir,
    base |-> SplitTail(outdir),
    isumfreq |-> a.isumfreq,
    outro |-> a.outro,
    vsum |-> a.vsum,
    isum |-> a.isum,
    vseconds |-> 0, vwidth |-> 0, vheight |-> 0, vaudio |-> FALSE, vmeta |-> FALSE,
    jpgdir |-> Unset, gifdir |-> Unset, gifsumdir |-> Unset, mp4dir |-> Unset,
    mp4sumpath |-> Unset, mp4tmppath |-> Unset, mp4outpath |-> Unset,
    numsnaps |-> 0 ]

\* the object before any video is processed
NoVideo ==
  NewVideo(Unset, << Unset >>,
           [gifwidth |-> 0, vsumlength |-> 0, isumfreq |-> 0, outro |-> Unset,
            vsum |-> FALSE, isum |-> FALSE])

\* summarize(): storing the probe result in the object
StoreMeta(vid, meta) ==
  [vid EXCEPT !.vmeta = meta.success, !.vseconds = meta.vseconds,
              !.vwidth = meta.vwidth, !.vheight = meta.vheight,
              !.vaudio = meta.vaudio]

Max(a, b) == IF a >= b THEN a ELSE b

\* NumSnaps without the floor of ten snapshots
NumSnaps_NoMinimum(vseconds, isumfreq) ==
  IF isumfreq > 0 THEN vseconds \div isumfreq ELSE 10

\* numsnaps of prep_outfolders; int(x / y) of non-negative x and positive y
NumSnaps(vseconds, isumfreq) ==
  IF isumfreq > 0 THEN Max(vseconds \div isumfreq, 10) ELSE 10

\* PrepRaises with the test off by one
PrepRaises_OffByOne(vid) == vid.isumfreq < -1

\* prep_outfolders(): whether it raises ValueError
PrepRaises(vid) == vid.isumfreq < 0

\* PrepFs leaving a raw summary of an earlier run in place
PrepFs_KeepTmp(vid, f) ==
  LET f0 == EnsureDir(f, vid.outdir)
      f1 == IF vid.isum
            THEN EnsureDir(EnsureDir(EnsureDir(f0,
                   Join(vid.outdir, PreJpg \o IntStr(vid.vwidth))),
                   Join(vid.outdir, PreGif \o IntStr(vid.gifwidth))),
                   Join(vid.outdir, PreGifsum \o IntStr(vid.gifwidth)))
            ELSE f0
  IN IF PrepRaises(vid) THEN f0
     ELSE IF vid.vsum
     THEN EnsureDir(f1, Join(vid.outdir, PreMp4 \o IntStr(vid.vsumlength)))
     ELSE f1

\* PrepFs without the directory of the video summary
PrepFs_NoMp4Dir(vid, f) ==
  LET f0 == EnsureDir(f, vid.outdir)
      f1 == IF vid.isum
            THEN EnsureDir(EnsureDir(EnsureDir(f0,
                   Join(vid.outdir, PreJpg \o IntStr(vid.vwidth))),
                   Join(vid.outdir, PreGif \o IntStr(vid.gifwidth))),
                   Join(vid.outdir, PreGifsum \o IntStr(vid.gifwidth)))
            ELSE f0
      tmp == Join(vid.outdir, vid.base \o SufSumMp4)
  IN IF PrepRaises(vid) THEN f0
     ELSE IF vid.vsum /\ Exists(f1, tmp) THEN TrashFs(f1, tmp) ELSE f1

\* prep_outfolders(): the file system on return (or when it raises)
PrepFs(vid, f) ==
  LET f0 == EnsureDir(f, vid.outdir)
      f1 == IF vid.isum
            THEN EnsureDir(EnsureDir(EnsureDir(f0,
                   Join(vid.outdir, PreJpg \o IntStr(vid.vwidth))),
                   Join(vid.outdir, PreGif \o IntStr(vid.gifwidth))),
                   Join(vid.outdir, PreGifsum \o IntStr(vid.gifwidth)))
            ELSE f0
      f2 == IF vid.vsum
            THEN EnsureDir(f1, Join(vid.outdir, PreMp4 \o IntStr(vid.vsumlength)))
            ELSE f1
      tmp == Join(vid.outdir, vid.base \o SufSumMp4)
  IN IF PrepRaises(vid) THEN f0
     ELSE IF vid.vsum /\ Exists(f2, tmp) THEN TrashFs(f2, tmp) ELSE f2

\* prep_outfolders(): the trash on return
PrepTrash(vid, f, tr) ==
  LET tmp == Join(vid.outdir, vid.base \o SufSumMp4)
  IN IF ~PrepRaises(vid) /\ vid.vsum /\ Exists(f, tmp)
     THEN TrashBin(f, tr, tmp) ELSE tr

\* PrepVideo leaving gifsumdir unset
PrepVideo_NoGifsumDir(vid) ==
  LET n == [vid EXCEPT !.numsnaps = NumSnaps(vid.vseconds, vid.isumfreq)]
      i == IF vid.isum
           THEN [n EXCEPT
                   !.jpgdir = Join(vid.outdir, PreJpg \o IntStr(vid.vwidth)),
                   !.gifdir = Join(vid.outdir, PreGif \o IntStr(vid.gifwidth))]
           ELSE n
      mp4dir == Join(vid.outdir, PreMp4 \o IntStr(vid.vsumlength))
  IN IF PrepRaises(vid) THEN vid
     ELSE IF vid.vsum
     THEN [i EXCEPT
             !.mp4dir = mp4dir,
             !.mp4tmppath = Join(vid.outdir, vid.base \o SufSumMp4),
             !.mp4sumpath = Join(mp4dir, vid.base \o vid.mp4sumsuf),
             !.mp4outpath = Join(mp4dir, vid.base \o vid.mp4outsuf)]
     ELSE i

\* PrepVideo setting the video fields whether or not vsum is on
PrepVideo_AlwaysVideoFields(vid) ==
  LET n == [vid EXCEPT !.numsnaps = NumSnaps(vid.vseconds, vid.isumfreq)]
      i == IF vid.isum
           THEN [n EXCEPT
                   !.jpgdir = Join(vid.outdir, PreJpg \o IntStr(vid.vwidth)),
                   !.gifdir = Join(vid.outdir, PreGif \o IntStr(vid.gifwidth)),
                   !.gifsumdir = Join(vid.outdir, PreGifsum \o IntStr(vid.gifwidth))]
           ELSE n
      mp4dir == Join(vid.outdir, PreMp4 \o IntStr(vid.vsumlength))
  IN IF PrepRaises(vid) THEN vid
     ELSE [i EXCEPT
             !.mp4dir = mp4dir,
             !.mp4tmppath = Join(vid.outdir, vid.base \o SufSumMp4),
             !.mp4sumpath = Join(mp4dir, vid.base \o vid.mp4sumsuf),
             !.mp4outpath = Join(mp4dir, vid.base \o vid.mp4outsuf)]

\* prep_outfolders(): the object on return
PrepVideo(vid) ==
  LET n == [vid EXCEPT !.numsnaps = NumSnaps(vid.vseconds, vid.isumfreq)]
      i == IF vid.isum
           THEN [n EXCEPT
                   !.jpgdir = Join(vid.outdir, PreJpg \o IntStr(vid.vwidth)),
                   !.gifdir = Join(vid.outdir, PreGif \o IntStr(vid.gifwidth)),
                   !.gifsumdir = Join(vid.outdir, PreGifsum \o IntStr(vid.gifwidth))]
           ELSE n
      mp4dir == Join(vid.outdir, PreMp4 \o IntStr(vid.vsumlength))
  IN IF PrepRaises(vid) THEN vid
     ELSE IF vid.vsum
     THEN [i EXCEPT
             !.mp4dir = mp4dir,
             !.mp4tmppath = Join(vid.outdir, vid.base \o SufSumMp4),
             !.mp4sumpath = Join(mp4dir, vid.base \o vid.mp4sumsuf),
             !.mp4outpath = Join(mp4dir, vid.base \o vid.mp4outsuf)]
     ELSE i

\* run_hecate(): the command line
HecateCmd(vid) ==
  [ in_video |-> vid.path,
    out_dir |-> vid.outdir,
    generate_mov |-> vid.vsum,
    lmov |-> IF vid.vsum THEN vid.vsumlength ELSE 0,
    mov_width_px |-> IF vid.vsum THEN vid.vwidth ELSE 0,
    generate_jpg |-> vid.isum,
    njpg |-> IF vid.isum THEN vid.numsnaps ELSE 0,
    jpg_width_px |-> IF vid.isum THEN vid.vwidth ELSE 0,
    generate_gifall |-> vid.isum,
    generate_gifsum |-> vid.isum,
    ngif |-> IF vid.isum THEN vid.numsnaps ELSE 0,
    gif_width_px |-> IF vid.isum THEN vid.gifwidth ELSE 0 ]

\* the files hecate emits into out_dir for a command: named after the
\* input video, directly in out_dir
HecateFiles(cmd) ==
  LET stem == SplitExtRoot(SplitTail(cmd.in_video))
      shot == << "_", "0" >>
  IN (IF cmd.generate_mov THEN {Join(cmd.out_dir, stem \o SufSumMp4)} ELSE {})
       \cup (IF cmd.generate_jpg THEN {Join(cmd.out_dir, stem \o shot \o ExtJpg)} ELSE {})
       \cup (IF cmd.generate_gifall THEN {Join(cmd.out_dir, stem \o shot \o ExtGif)} ELSE {})
       \cup (IF cmd.generate_gifsum THEN {Join(cmd.out_dir, stem \o SufSumGif)} ELSE {})

HecateFs(f, cmd, out, run) ==
  LET new == IF out.wrote THEN HecateFiles(cmd) ELSE {}
  IN [q \in DOMAIN f \cup new |-> IF q \in new THEN FileEntry("hecate", run) ELSE f[q]]

\* RunHecateOk taking any exit code for success
RunHecateOk_AnyExit(out) == out.kind # "notfound"

\* run_hecate(): its return value
RunHecateOk(out) == out.kind = "ok"

\* the "for x in glob: shutil.move(x, join(dir, basename(x)))" loops
RECURSIVE MoveAll(_, _, _)
MoveAll(f, srcs, dstdir) ==
  IF srcs = {} THEN f
  ELSE LET src == CHOOSE x \in srcs : TRUE
       IN MoveAll(Move(f, src, Join(dstdir, SplitTail(src))), srcs \ {src}, dstdir)

\* CleanupImages moving the summary GIF with the other GIFs
CleanupImages_SumGifLast(vid, f) ==
  LET f1 == MoveAll(f, GlobExt(f, vid.outdir, ExtJpg), vid.jpgdir)
      f2 == MoveAll(f1, GlobExt(f1, vid.outdir, ExtGif), vid.gifdir)
      gifsumpath == Join(vid.outdir, vid.base \o SufSumGif)
  IN IF Exists(f2, gifsumpath)
     THEN Move(f2, gifsumpath, Join(vid.gifsumdir, SplitTail(gifsumpath)))
     ELSE f2

\* cleanup_folders(): the file system after the image part
CleanupImages(vid, f) ==
  LET f1 == MoveAll(f, GlobExt(f, vid.outdir, ExtJpg), vid.jpgdir)
      gifsumpath == Join(vid.outdir, vid.base \o SufSumGif)
      f2 == IF Exists(f1, gifsumpath)
            THEN Move(f1, gifsumpath, Join(vid.gifsumdir, SplitTail(gifsumpath)))
            ELSE f1
  IN MoveAll(f2, GlobExt(f2, vid.outdir, ExtGif), vid.gifdir)

CleanupImagesOk(vid) ==
  ~(vid.isum /\ (vid.jpgdir = Unset \/ vid.gifdir = Unset \/ vid.gifsumdir = Unset))

\* CleanupVideoOk testing the temporary path only
CleanupVideoOk_OnlyTmp(vid) == ~(vid.vsum /\ vid.mp4tmppath = Unset)

CleanupVideoOk(vid) ==
  ~(vid.vsum /\ (vid.mp4tmppath = Unset \/ vid.mp4sumpath = Unset))

\* cleanup_folders(): its return value
CleanupOk(vid) == CleanupImagesOk(vid) /\ CleanupVideoOk(vid)

\* CleanupFs moving the images whether or not they were asked for
CleanupFs_AlwaysImages(vid, f) ==
  LET f1 == IF vid.jpgdir # Unset /\ vid.gifdir # Unset /\ vid.gifsumdir # Unset
            THEN CleanupImages(vid, f) ELSE f
  IN IF CleanupImagesOk(vid) /\ vid.vsum /\ CleanupVideoOk(vid) /\ Exists(f1, vid.mp4tmppath)
     THEN Move(f1, vid.mp4tmppath, vid.mp4sumpath)
     ELSE f1

\* cleanup_folders(): the file system on return
CleanupFs(vid, f) ==
  LET f1 == IF vid.isum /\ CleanupImagesOk(vid) THEN CleanupImages(vid, f) ELSE f
  IN IF CleanupImagesOk(vid) /\ vid.vsum /\ CleanupVideoOk(vid) /\ Exists(f1, vid.mp4tmppath)
     THEN Move(f1, vid.mp4tmppath, vid.mp4sumpath)
     ELSE f1

\* the file systems cleanup_folders() can leave behind when one of its
\* shutil.move calls raises OSError: the moves made before it stay made;
\* glob returns the names in no particular order, so any selection of the
\* other matches may have been moved before the failing one
CleanupFailFs(vid, f) ==
  LET images == vid.isum /\ CleanupImagesOk(vid)
      jpgs == GlobExt(f, vid.outdir, ExtJpg)
      f1 == MoveAll(f, jpgs, vid.jpgdir)
      gifsumpath == Join(vid.outdir, vid.base \o SufSumGif)
      f2 == IF Exists(f1, gifsumpath)
            THEN Move(f1, gifsumpath, Join(vid.gifsumdir, SplitTail(gifsumpath)))
            ELSE f1
      gifs == GlobExt(f2, vid.outdir, ExtGif)
      f3 == IF images THEN MoveAll(f2, gifs, vid.gifdir) ELSE f
      video == CleanupImagesOk(vid) /\ vid.vsum /\ CleanupVideoOk(vid)
  IN (IF images
      THEN {MoveAll(f, done, vid.jpgdir) : done \in {S \in SUBSET jpgs : S # jpgs}}
             \cup (IF Exists(f1, gifsumpath) THEN {f1} ELSE {})
             \cup {MoveAll(f2, done, vid.gifdir) : done \in {S \in SUBSET gifs : S # gifs}}
      ELSE {})
       \cup (IF video /\ Exists(f3, vid.mp4tmppath) THEN {f3} ELSE {})

\* MoveErrorOutcome with the error turned into a False result
MoveErrorOutcome_ReturnsFalse == "failed"

\* cleanup_folders(): what becomes of an OSError of shutil.move; there is
\* no except clause, so it leaves the method
MoveErrorOutcome == "raised"

\* OutroWanted without the test that the outro file exists
OutroWanted_NoOutroFileTest(vid, f) ==
  /\ vid.vsum
  /\ vid.outro # Unset
  /\ vid.mp4sumpath # Unset
  /\ Exists(f, vid.mp4sumpath)

\* summarize(): the condition under which add_outro() is called
OutroWanted(vid, f) ==
  /\ vid.vsum
  /\ vid.outro # Unset
  /\ Exists(f, vid.outro)
  /\ vid.mp4sumpath # Unset
  /\ Exists(f, vid.mp4sumpath)

\* OutroArgsMissing without the test of mp4outpath
OutroArgsMissing_NoOutpath(vid) == vid.outro = Unset \/ vid.mp4sumpath = Unset

\* add_outro(): the guard of its first lines
OutroArgsMissing(vid) ==
  vid.outro = Unset \/ vid.mp4sumpath = Unset \/ vid.mp4outpath = Unset

\* ConcatRequest keeping the audio when either side has some
ConcatRequest_AnyAudio(vid, oaudio) ==
  [ in1 |-> vid.mp4sumpath, in2 |-> vid.outro, output |-> vid.mp4outpath,
    v |-> 1, a |-> IF vid.vaudio \/ oaudio THEN 1 ELSE 0,
    tracks |-> IF vid.vaudio \/ oaudio THEN 2 ELSE 1 ]

\* add_outro(): the concat request; v and a are the arguments of
\* ffmpeg.concat (a defaults to 0), tracks is the number of streams handed
\* to ffmpeg.output
ConcatRequest(vid, oaudio) ==
  [ in1 |-> vid.mp4sumpath, in2 |-> vid.outro, output |-> vid.mp4outpath,
    v |-> 1, a |-> IF vid.vaudio /\ oaudio THEN 1 ELSE 0,
    tracks |-> IF vid.vaudio /\ oaudio THEN 2 ELSE 1 ]

\* what ffmpeg leaves behind: it writes only its output path (-y)
MuxFs(f, req, out, run) ==
  IF out.wrote THEN Put(f, AbsPath(req.output), FileEntry("ffmpeg", run)) ELSE f

\* add_outro(): its return value once the muxer was set up or run
MuxOk(out) == out.kind = "ok"

\* MuxTrashTarget trashing the summary instead of the failed output
MuxTrashTarget_Summary(vid) == vid.mp4sumpath

\* add_outro(): the path it trashes after a failed concatenation
MuxTrashTarget(vid) == vid.mp4outpath

\* AddOutroFs leaving a partial output in place
AddOutroFs_LeavePartial(vid, f, out) == f

\* add_outro(): the file system on return
AddOutroFs(vid, f, out) ==
  IF ~MuxOk(out) /\ Exists(f, MuxTrashTarget(vid)) THEN TrashFs(f, MuxTrashTarget(vid)) ELSE f

AddOutroTrash(vid, f, tr, out) ==
  IF ~MuxOk(out) /\ Exists(f, MuxTrashTarget(vid)) THEN TrashBin(f, tr, MuxTrashTarget(vid)) ELSE tr

\* SummarizeStep with a retry of a failed summarizer
SummarizeStep_Retry(stage, ok, wanted) ==
  CASE stage = "Probing" -> IF ok THEN "planning" ELSE "ret_false"
    [] stage = "Planning" -> "summarizing"
    [] stage = "Summarizing" -> IF ok THEN "reorganizing" ELSE "summarizing"
    [] stage = "Reorganizing" ->
         IF ~ok THEN "ret_false" ELSE IF wanted THEN "outro_probe" ELSE "ret_true"
    [] stage = "OutroAppending" -> "ret_true"

\* SummarizeStep without the test of run_hecate()'s result
SummarizeStep_IgnoreHecate(stage, ok, wanted) ==
  CASE stage = "Probing" -> IF ok THEN "planning" ELSE "ret_false"
    [] stage = "Planning" -> "summarizing"
    [] stage = "Summarizing" -> "reorganizing"
    [] stage = "Reorganizing" ->
         IF ~ok THEN "ret_false" ELSE IF wanted THEN "outro_probe" ELSE "ret_true"
    [] stage = "OutroAppending" -> "ret_true"

\* SummarizeStep without the test of the probe's success
SummarizeStep_IgnoreProbe(stage, ok, wanted) ==
  CASE stage = "Probing" -> "planning"
    [] stage = "Planning" -> "summarizing"
    [] stage = "Summarizing" -> IF ok THEN "reorganizing" ELSE "ret_false"
    [] stage = "Reorganizing" ->
         IF ~ok THEN "ret_false" ELSE IF wanted THEN "outro_probe" ELSE "ret_true"
    [] stage = "OutroAppending" -> "ret_true"

\* SummarizeStep with a failed add_outro() failing the pipeline
SummarizeStep_OutroFatal(stage, ok, wanted) ==
  CASE stage = "Probing" -> IF ok THEN "planning" ELSE "ret_false"
    [] stage = "Planning" -> "summarizing"
    [] stage = "Summarizing" -> IF ok THEN "reorganizing" ELSE "ret_false"
    [] stage = "Reorganizing" ->
         IF ~ok THEN "ret_false" ELSE IF wanted THEN "outro_probe" ELSE "ret_true"
    [] stage = "OutroAppending" -> IF ok THEN "ret_true" ELSE "ret_false"

\* summarize(): what follows a stage that returned ok; wanted is the
\* add_outro condition, evaluated after cleanup_folders
SummarizeStep(stage, ok, wanted) ==
  CASE stage = "Probing" -> IF ok THEN "planning" ELSE "ret_false"
    [] stage = "Planning" -> "summarizing"
    [] stage = "Summarizing" -> IF ok THEN "reorganizing" ELSE "ret_false"
    [] stage = "Reorganizing" ->
         IF ~ok THEN "ret_false" ELSE IF wanted THEN "outro_probe" ELSE "ret_true"
    [] stage = "OutroAppending" -> "ret_true"

(***************************************************************************)
(* PyHecate.                                                               *)
(***************************************************************************)
\* ResolveOutdir without the override
ResolveOutdir_NoOverride(a, f) ==
  IF ~Exists(f, a.path) THEN Unset
  ELSE IF ~a.dir_mode THEN SplitHead(AbsPath(a.path))
  ELSE AbsPath(a.path)

\* PyHecate.__init__: self.outdir (the attribute stays unset when the
\* input path does not exist)
ResolveOutdir(a, f) ==
  IF ~Exists(f, a.path) THEN Unset
  ELSE IF a.outdir # Unset THEN AbsPath(a.outdir)
  ELSE IF ~a.dir_mode THEN SplitHead(AbsPath(a.path))
  ELSE AbsPath(a.path)

\* PyHecate.__init__: whether os.makedirs(self.outdir) raises
InitRaises(a, f) ==
  /\ Exists(f, a.path)
  /\ ~Exists(f, ResolveOutdir(a, f))
  /\ MakeDirsRaises(f, ResolveOutdir(a, f))

\* PyHecate.__init__: the file system on return (or when it raises)
ResolveFs(a, f) ==
  IF ~Exists(f, a.path) \/ InitRaises(a, f) THEN f
  ELSE EnsureDir(f, ResolveOutdir(a, f))

\* PyHecate.__init__: self.vpaths
ResolveVpaths(a, f) ==
  LET abs_path == AbsPath(a.path)
      g == ResolveFs(a, f)
  IN IF ~Exists(f, a.path) \/ InitRaises(a, f) THEN << >>
     ELSE IF a.dir_mode
     THEN IF ~IsDir(g, abs_path) THEN << >>
          ELSE SortPaths({Join(abs_path, n) :
                            n \in {m \in ListDir(g, abs_path) : EndsWith(Lower(m), ExtMp4)}})
     ELSE IF ~IsFile(g, abs_path) THEN << >>
     ELSE << abs_path >>

\* execute(): what it returns when vpaths is empty
EmptyResult == TRUE

\* LoopBody keeping only the last video's result
LoopBody_LastWins(acc, ok) == ok

\* execute(): the loop body's update of all_successful
LoopBody(acc, ok) == IF ~ok THEN FALSE ELSE acc

\* LoopContinues with a break after the first failed video
LoopContinues_Break(k, n, ok) == k < n /\ ok

\* execute(): whether the for loop goes on to the next video after the
\* video at position k of n returned ok
LoopContinues(k, n, ok) == k < n

\* ExitCode with an exception treated as success
ExitCode_SwallowException(returned, res) == IF returned /\ ~res THEN 1 ELSE 0

\* main(): the exit code; returned tells whether execute() returned (no
\* exception reached the except clause), res is what it returned
ExitCode(returned, res) == IF returned /\ res THEN 0 ELSE 1

\* VideoAt walking the list from its end
VideoAt_Reversed(vpaths, k) == vpaths[Len(vpaths) + 1 - k]

\* execute(): the video of the k-th iteration of "for vpath in self.vpaths"
VideoAt(vpaths, k) == vpaths[k]

\* VideoOutdir keeping the extension
VideoOutdir_KeepExt(outdir, vpath) == Join(outdir, SplitTail(vpath))

\* process_video(): the output directory of a video
VideoOutdir(outdir, vpath) == Join(outdir, SplitExtRoot(SplitTail(vpath)))

(***************************************************************************)
(* Initial states: the tool is about to be started.                        *)
(***************************************************************************)
\* no direct call of _get_video_meta yet
NoProbe == [resp |-> [kind |-> "none", streams |-> NoStreams], present |-> FALSE, meta |-> NoMeta]

\* run_hecate() has not been called by the current pipeline
NoHecate == [cmd |-> HecateCmd(NoVideo), kind |-> "none", wrote |-> FALSE]

\* add_outro() has not built a concatenation in the current pipeline
NoMux == [req |-> ConcatRequest(NoVideo, FALSE), kind |-> "none", wrote |-> FALSE]

\* main(): sys.exit has not been reached
NotExited == -1

ArgSets ==
  [ path : {InDirRel, Join(InDir, NameA), MissingPath},
    dir_mode : BOOLEAN,
    outdir : {Unset, OutOverride, OutUnderFile},
    isumfreq : {-1, 0, ISUMFREQ},
    outro : {Unset, OutroPath},
    vsum : BOOLEAN,
    isum : BOOLEAN,
    vsumlength : {VSUMLENGTH},
    gifwidth : {GIFWIDTH} ]

Init ==
  /\ args \in ArgSets
  /\ \E listing \in Listings, withOutro \in BOOLEAN, prior \in BOOLEAN :
       /\ withOutro => args.outro # Unset
       /\ args.outdir = OutUnderFile => NameC \in listing
       /\ prior => (NameA \in listing /\ args.outdir = Unset)
       /\ fs = IF prior THEN WithPrior(WorldFs(listing, withOutro))
                ELSE WorldFs(listing, withOutro)
  /\ trash = {}
  /\ ph = [outdir |-> Unset, vpaths |-> << >>]
  /\ pc = "new"
  /\ idx = 0
  /\ all_successful = TRUE
  /\ result = FALSE
  /\ v = NoVideo
  /\ ometa = NoMeta
  /\ runs = << >>
  /\ fs0 = fs
  /\ exit_code = NotExited
  /\ probed = NoProbe
  /\ hecate = NoHecate
  /\ mux = NoMux

(***************************************************************************)
(* History.                                                                *)
(***************************************************************************)
NewRun(vpath, outdir) ==
  [vpath |-> vpath, outdir |-> outdir, stages |-> << >>, oks |-> << >>, ret |-> "running"]

Logged(rs, stage, ok) ==
  [rs EXCEPT ![Len(rs)].stages = Append(@, stage), ![Len(rs)].oks = Append(@, ok)]

Returned(rs, ret) == [rs EXCEPT ![Len(rs)].ret = ret]

(***************************************************************************)
(* Actions.                                                                *)
(***************************************************************************)
\* processor = pyhecate.PyHecate(**pyhecate_opts); an error of os.makedirs
\* leaves the constructor
PyHecateInit ==
  /\ pc = "new"
  /\ ph' = [outdir |-> ResolveOutdir(args, fs), vpaths |-> ResolveVpaths(args, fs)]
  /\ fs' = ResolveFs(args, fs)
  /\ pc' = IF InitRaises(args, fs) THEN "raised" ELSE "constructed"
  /\ UNCHANGED << args, trash, idx, all_successful, result, v, ometa, runs, fs0, exit_code, probed,
                  hecate, mux >>

\* processor.execute(), up to the first process_video call
Execute ==
  /\ pc = "constructed"
  /\ IF ph.vpaths = << >>
     THEN /\ pc' = "done"
          /\ result' = EmptyResult
          /\ UNCHANGED << idx, all_successful >>
     ELSE /\ pc' = "process"
          /\ idx' = 1
          /\ all_successful' = TRUE
          /\ UNCHANGED result
  /\ UNCHANGED << args, fs, trash, ph, v, ometa, runs, fs0, exit_code, probed,
                  hecate, mux >>

\* process_video(vpath), up to the first external call of summarize(): the
\* PyHecateVideo constructor creates the video's output directory
ProcessVideo ==
  /\ pc = "process"
  /\ LET vpath == VideoAt(ph.vpaths, idx)
         voutdir == VideoOutdir(ph.outdir, vpath)
     IN /\ v' = NewVideo(vpath, voutdir, args)
        /\ fs' = EnsureDir(fs, voutdir)
        /\ runs' = Append(runs, NewRun(vpath, voutdir))
        /\ fs0' = fs
  /\ pc' = "probing"
  /\ hecate' = NoHecate
  /\ mux' = NoMux
  /\ UNCHANGED << args, trash, ph, idx, all_successful, result, ometa, exit_code, probed >>

\* summarize() returns ok to process_video(), which returns it to the loop
\* of execute(); rs is the history
Return(ok, rs) ==
  /\ runs' = Returned(rs, IF ok THEN "True" ELSE "False")
  /\ all_successful' = LoopBody(all_successful, ok)
  /\ IF LoopContinues(idx, Len(ph.vpaths), ok)
     THEN /\ pc' = "process"
          /\ idx' = idx + 1
          /\ UNCHANGED result
     ELSE /\ pc' = "done"
          /\ result' = LoopBody(all_successful, ok)
          /\ UNCHANGED idx

\* summarize() goes on after a stage
Continue(stage, ok, wanted) ==
  LET next == SummarizeStep(stage, ok, wanted)
      rs == Logged(runs, stage, IF ok THEN "ok" ELSE "failed")
  IN IF next \in {"ret_true", "ret_false"}
     THEN Return(next = "ret_true", rs)
     ELSE /\ pc' = next
          /\ runs' = rs
          /\ UNCHANGED << idx, all_successful, result >>

\* the outcomes of an ffprobe call on path: ffprobe answers with streams
\* only for a regular file; the file may be deleted while ffprobe runs
ProbeCalls(f, path) ==
  {[resp |-> r, vanished |-> d] :
     r \in {x \in ProbeResponses : x.kind = "ok" => IsFile(f, path)},
     d \in BOOLEAN}

ProbeFs(f, path, call) ==
  IF call.vanished /\ call.resp.kind = "ok" THEN Remove(f, AbsPath(path)) ELSE f

\* summarize(): video_meta = self._get_video_meta(self.path)
Probe ==
  /\ pc = "probing"
  /\ \E call \in ProbeCalls(fs, v.path) :
       LET g == ProbeFs(fs, v.path, call)
           meta == GetVideoMeta(call.resp, Exists(g, v.path))
       IN /\ call.vanished => call.resp.kind = "ok"
          /\ fs' = g
          /\ v' = IF meta.success THEN StoreMeta(v, meta) ELSE v
          /\ Continue("Probing", meta.success, FALSE)
  /\ UNCHANGED << args, trash, ph, ometa, fs0, exit_code, probed,
                  hecate, mux >>

\* summarize(): self.prep_outfolders(); a ValueError leaves summarize(),
\* process_video() and execute()
PrepOutfolders ==
  /\ pc = "planning"
  /\ fs' = PrepFs(v, fs)
  /\ trash' = PrepTrash(v, fs, trash)
  /\ v' = PrepVideo(v)
  /\ IF PrepRaises(v)
     THEN /\ pc' = "raised"
          /\ runs' = Returned(Logged(runs, "Planning", "raised"), "raised")
          /\ UNCHANGED << idx, all_successful, result >>
     ELSE Continue("Planning", TRUE, FALSE)
  /\ UNCHANGED << args, ph, ometa, fs0, exit_code, probed,
                  hecate, mux >>

\* summarize(): self.run_hecate()
RunHecate ==
  /\ pc = "summarizing"
  /\ \E out \in HecateOutcomes :
       /\ fs' = HecateFs(fs, HecateCmd(v), out, Len(runs))
       /\ hecate' = [cmd |-> HecateCmd(v), kind |-> out.kind, wrote |-> out.wrote]
       /\ Continue("Summarizing", RunHecateOk(out), FALSE)
  /\ UNCHANGED << args, trash, ph, v, ometa, fs0, exit_code, probed, mux >>

\* summarize(): self.cleanup_folders() and the test whether to add the outro
CleanupFolders ==
  /\ pc = "reorganizing"
  /\ \/ /\ fs' = CleanupFs(v, fs)
        /\ Continue("Reorganizing", CleanupOk(v), OutroWanted(v, fs'))
     \/ \E g \in CleanupFailFs(v, fs) :
          /\ fs' = g
          /\ IF MoveErrorOutcome = "raised"
             THEN /\ pc' = "raised"
                  /\ runs' = Returned(Logged(runs, "Reorganizing", "raised"), "raised")
                  /\ UNCHANGED << idx, all_successful, result >>
             ELSE Continue("Reorganizing", FALSE, FALSE)
  /\ UNCHANGED << args, trash, ph, v, ometa, fs0, exit_code, probed,
                  hecate, mux >>

\* add_outro(), up to the muxer: the guard and the probe of the outro
AddOutroProbe ==
  /\ pc = "outro_probe"
  /\ IF OutroArgsMissing(v)
     THEN /\ Continue("OutroAppending", FALSE, FALSE)
          /\ UNCHANGED << fs, ometa >>
     ELSE \E call \in ProbeCalls(fs, v.outro) :
            LET g == ProbeFs(fs, v.outro, call)
                meta == GetVideoMeta(call.resp, Exists(g, v.outro))
            IN /\ call.vanished => call.resp.kind = "ok"
               /\ fs' = g
               /\ ometa' = meta
               /\ IF meta.success
                  THEN /\ pc' = "outro_mux"
                       /\ UNCHANGED << idx, all_successful, result, runs >>
                  ELSE Continue("OutroAppending", FALSE, FALSE)
  /\ UNCHANGED << args, trash, ph, v, fs0, exit_code, probed,
                  hecate, mux >>

\* add_outro(): the concatenation and the clean-up after a failed one
AddOutroMux ==
  /\ pc = "outro_mux"
  /\ \E out \in MuxOutcomes :
       LET g == MuxFs(fs, ConcatRequest(v, ometa.vaudio), out, Len(runs))
       IN /\ fs' = AddOutroFs(v, g, out)
          /\ trash' = AddOutroTrash(v, g, trash, out)
          /\ mux' = [req |-> ConcatRequest(v, ometa.vaudio), kind |-> out.kind,
                      wrote |-> out.wrote]
          /\ Continue("OutroAppending", MuxOk(out), FALSE)
  /\ UNCHANGED << args, ph, v, ometa, fs0, exit_code, probed, hecate >>

\* main(): the end of the try statement and sys.exit(exit_code)
Exit ==
  /\ pc \in {"done", "raised"}
  /\ exit_code = NotExited
  /\ exit_code' = ExitCode(pc = "done", result)
  /\ UNCHANGED << args, fs, trash, ph, pc, idx, all_successful, result, v, ometa, runs,
                  fs0, probed, hecate, mux >>

Next ==
  \/ PyHecateInit
  \/ Execute
  \/ ProcessVideo
  \/ Probe
  \/ PrepOutfolders
  \/ RunHecate
  \/ CleanupFolders
  \/ AddOutroProbe
  \/ AddOutroMux
  \/ Exit

Spec == Init /\ [][Next]_vars

TypeOK ==
  /\ pc \in {"new", "constructed", "process", "probing", "planning", "summarizing",
             "reorganizing", "outro_probe", "outro_mux", "done", "raised", "unit"}
  /\ idx \in 0..Len(ph.vpaths)
  /\ Len(runs) <= Len(ph.vpaths)
  /\ exit_code \in {NotExited, 0, 1}

(***************************************************************************)
(* Vocabulary of the properties.                                           *)
(***************************************************************************)
StageOrder == << "Probing", "Planning", "Summarizing", "Reorganizing", "OutroAppending" >>

CoreStages == SubSeq(StageOrder, 1, 4)

AllOk(r) == \A k \in 1..Len(r.oks) : r.oks[k] = "ok"

Last == runs[Len(runs)]

InSummarize ==
  pc \in {"probing", "planning", "summarizing", "reorganizing", "outro_probe", "outro_mux"}

Dirs(f) == {p \in DOMAIN f : f[p].kind = "dir"}

StageFailed(r, stage) ==
  \E k \in 1..Len(r.stages) : r.stages[k] = stage /\ r.oks[k] = "failed"

(***************************************************************************)
(* C1: in every run of summarize() the stages executed so far are a prefix *)
(* of Probing, Planning, Summarizing, Reorganizing, OutroAppending: none   *)
(* is skipped, reordered or run twice.                                     *)
(***************************************************************************)
C1_StagesArePrefix ==
  \A k \in 1..Len(runs) :
    /\ Len(runs[k].stages) <= Len(StageOrder)
    /\ runs[k].stages = SubSeq(StageOrder, 1, Len(runs[k].stages))

C1_Witness ==
  \E k \in 1..Len(runs) : runs[k].stages = StageOrder /\ runs[k].ret = "True"

(***************************************************************************)
(* C2: when run_hecate() or cleanup_folders() returns False, summarize()   *)
(* returns False and the failed stage is the last one executed.            *)
(***************************************************************************)
C2_FailureAborts ==
  \A k \in 1..Len(runs) :
    \A j \in 1..Len(runs[k].stages) :
      (runs[k].stages[j] \in {"Summarizing", "Reorganizing"} /\ runs[k].oks[j] = "failed")
        => (runs[k].ret = "False" /\ j = Len(runs[k].stages))

C2_Witness ==
  \E k \in 1..Len(runs) :
    /\ StageFailed(runs[k], "Summarizing")
    /\ runs[k].ret = "False"
    /\ Len(runs) > k

(***************************************************************************)
(* C3: when the probe of the input fails, summarize() returns False, the   *)
(* summarizer is never invoked, and the run has created no directory       *)
(* besides the video's output root made by the constructor.                *)
(***************************************************************************)
C3_ProbeFailureCreatesNothing ==
  (Len(runs) > 0 /\ StageFailed(Last, "Probing"))
    => /\ Last.ret = "False"
       /\ Last.stages = << "Probing" >>
       /\ Dirs(fs) \ Dirs(fs0) \subseteq {v.outdir}
       /\ \A p \in DOMAIN fs \ DOMAIN fs0 : fs[p].kind = "dir"

C3_Witness ==
  /\ Len(runs) > 0
  /\ StageFailed(Last, "Probing")
  /\ v.outdir \in Dirs(fs) \ Dirs(fs0)
  /\ args.isum /\ args.vsum

(***************************************************************************)
(* C4: when add_outro() was attempted and returned False, summarize()      *)
(* returns True.                                                           *)
(***************************************************************************)
C4_OutroFailureIsNotFatal ==
  \A k \in 1..Len(runs) :
    StageFailed(runs[k], "OutroAppending") => runs[k].ret = "True"

C4_Witness ==
  \E k \in 1..Len(runs) :
    /\ StageFailed(runs[k], "OutroAppending")
    /\ runs[k].ret = "True"
    /\ trash # {}

\* a step of add_outro() leaves the file at mp4sumpath as it is and touches
\* no path but mp4outpath
OutroStepKeepsSummary ==
  pc \in {"outro_probe", "outro_mux"}
    => /\ AbsPath(v.mp4sumpath) \in DOMAIN fs'
       /\ fs'[AbsPath(v.mp4sumpath)] = fs[AbsPath(v.mp4sumpath)]
       /\ \A p \in (DOMAIN fs \cup DOMAIN fs') \ {AbsPath(v.mp4outpath), AbsPath(v.outro)} :
            p \in DOMAIN fs /\ p \in DOMAIN fs' /\ fs'[p] = fs[p]
       /\ \A t \in trash' \ trash : t[1] = AbsPath(v.mp4outpath)

(***************************************************************************)
(* C5: no step of add_outro() changes the file at mp4sumpath; the only     *)
(* path add_outro() creates, overwrites or trashes is mp4outpath (the      *)
(* outro file itself may be deleted from outside while it is probed).      *)
(***************************************************************************)
C5_OutroKeepsSummary == [][OutroStepKeepsSummary]_vars

C5_Witness ==
  /\ Len(runs) > 0
  /\ ~InSummarize
  /\ StageFailed(Last, "OutroAppending")
  /\ Exists(fs, v.mp4sumpath)
  /\ \E t \in trash : t[1] = AbsPath(v.mp4outpath)

(***************************************************************************)
(* C6: add_outro() is called exactly when stages 1-4 succeeded, vsum is    *)
(* on, an outro is configured, the outro file exists and the file at       *)
(* mp4sumpath exists; otherwise it is not called and summarize() returns   *)
(* True.                                                                   *)
(***************************************************************************)
C6_OutroCondition ==
  LET cond == /\ v.vsum
              /\ v.outro # Unset
              /\ AbsPath(v.outro) \in DOMAIN fs
              /\ v.mp4sumpath # Unset
              /\ AbsPath(v.mp4sumpath) \in DOMAIN fs
  IN /\ pc = "outro_probe" => (cond /\ Last.stages = CoreStages /\ AllOk(Last))
     /\ (/\ Len(runs) > 0
         /\ pc \notin {"outro_probe", "outro_mux"}
         /\ Last.stages = CoreStages
         /\ AllOk(Last))
          => (~cond /\ Last.ret = "True")

C6_Witness ==
  /\ Len(runs) > 0
  /\ pc \notin {"outro_probe", "outro_mux"}
  /\ Last.stages = CoreStages
  /\ Last.ret = "True"
  /\ v.vsum
  /\ v.outro # Unset
  /\ Exists(fs, v.outro)
  /\ ~Exists(fs, v.mp4sumpath)

(***************************************************************************)
(* Vocabulary of the batch properties.                                     *)
(***************************************************************************)
Terminal == pc \in {"done", "raised"}

Rets == [k \in 1..Len(runs) |-> runs[k].ret]

AllTrue == \A k \in 1..Len(runs) : runs[k].ret = "True"

(***************************************************************************)
(* C7: a failure of one video's pipeline at stages 1-4 (a probe failure,   *)
(* the ValueError of Planning, a summarizer or reorganizing failure) never *)
(* stops the batch: when the run ends, process_video was started for every *)
(* video of vpaths, nothing was raised out of the loop, and execute()      *)
(* returned False.                                                         *)
(***************************************************************************)
C7_FailureDoesNotStopBatch ==
  (Terminal /\ ~AllTrue)
    => /\ pc = "done"
       /\ Len(runs) = Len(ph.vpaths)
       /\ result = FALSE

C9_ResultIsConjunction ==
  (pc = "done" /\ ph.outdir # Unset)
    => /\ Len(runs) = Len(ph.vpaths)
       /\ result = AllTrue

C9_Witness ==
  /\ pc = "done"
  /\ ph.outdir # Unset
  /\ Len(runs) >= 2
  /\ runs[1].ret = "False"
  /\ Last.ret = "True"
  /\ result = FALSE

(***************************************************************************)
(* C10: when the input path does not exist at construction, vpaths is      *)
(* empty, no directory is created (not even the outdir override), and      *)
(* execute() returns False.                                                *)
(***************************************************************************)
C10_MissingPathFails ==
  (pc = "done" /\ ~Exists(fs, args.path) /\ runs = << >>)
    => /\ ph.vpaths = << >>
       /\ fs = fs0
       /\ result = FALSE

(***************************************************************************)
(* C11: main() exits with code 0 exactly when execute() returned True, and *)
(* with code 1 when execute() returned False (some video failed) or an     *)
(* exception left the PyHecate constructor or execute().                   *)
(***************************************************************************)
C11_ExitCode ==
  exit_code # NotExited
    => /\ exit_code \in {0, 1}
       /\ exit_code = 0 <=> (pc = "done" /\ result = TRUE)
       /\ pc = "raised" => exit_code = 1
       /\ (\E k \in 1..Len(runs) : runs[k].ret \in {"False", "raised"}) => exit_code = 1

C11_Witness ==
  /\ exit_code = 1
  /\ pc = "raised"
  /\ runs = << >>

(***************************************************************************)
(* Planning over a range of durations and intervals: a single-file run     *)
(* that has probed its video and is about to call prep_outfolders().       *)
(***************************************************************************)
Intervals == {-30, -1, 0, 1, 7, 30, 299}

PlanArgs(i, vsum, isum) ==
  [ path |-> Join(InDir, NameA), dir_mode |-> FALSE, outdir |-> Unset,
    isumfreq |-> i, outro |-> Unset, vsum |-> vsum, isum |-> isum,
    vsumlength |-> VSUMLENGTH, gifwidth |-> GIFWIDTH ]

InitPlan ==
  \E d \in 0..MaxSeconds, i \in Intervals, vsum \in BOOLEAN, isum \in BOOLEAN :
    LET a == PlanArgs(i, vsum, isum)
        world == WorldFs({NameA}, FALSE)
        outdir == ResolveOutdir(a, world)
        vpath == ResolveVpaths(a, world)[1]
        voutdir == VideoOutdir(outdir, vpath)
    IN /\ args = a
       /\ fs = EnsureDir(ResolveFs(a, world), voutdir)
       /\ trash = {}
       /\ ph = [outdir |-> outdir, vpaths |-> ResolveVpaths(a, world)]
       /\ pc = "planning"
       /\ idx = 1
       /\ all_successful = TRUE
       /\ result = FALSE
       /\ v = StoreMeta(NewVideo(vpath, voutdir, a), VideoMetadata(TRUE, d, 640, 360, TRUE))
       /\ ometa = NoMeta
       /\ runs = Logged(<< NewRun(vpath, voutdir) >>, "Probing", "ok")
       /\ fs0 = ResolveFs(a, world)
       /\ exit_code = NotExited
       /\ probed = NoProbe
       /\ hecate = NoHecate
       /\ mux = NoMux

SpecPlan == InitPlan /\ [][PrepOutfolders]_vars

Planned == Len(runs) > 0 /\ Len(Last.stages) >= 2 /\ Last.stages[2] = "Planning"

(***************************************************************************)
(* C12: after prep_outfolders(), numsnaps is max(floor(d / i), 10) for a   *)
(* duration d >= 0 and an interval i > 0, and 10 for i = 0; it is never    *)
(* below 10 (d = 300, i = 30 gives 10; d = 3000, i = 30 gives 100).        *)
(***************************************************************************)
C12_NumSnaps ==
  (Planned /\ Last.oks[2] = "ok")
    => LET d == v.vseconds
           i == v.isumfreq
           n == v.numsnaps
       IN /\ n >= 10
          /\ i = 0 => n = 10
          /\ (i > 0 /\ d < 10 * i) => n = 10
          /\ (i > 0 /\ d >= 10 * i) => (n * i <= d /\ d < (n + 1) * i)
          /\ (d = 300 /\ i = 30) => n = 10
          /\ (d = 3000 /\ i = 30) => n = 100

C12_Witness ==
  /\ Planned
  /\ Last.oks[2] = "ok"
  /\ v.vseconds = 3000
  /\ v.isumfreq = 30
  /\ v.numsnaps = 100

(***************************************************************************)
(* C13: for an interval i < 0, prep_outfolders() raises ValueError, which  *)
(* leaves summarize(); no jpg-, gif-, gifsum- or mp4- directory has been   *)
(* created, no layout field and no numsnaps has been set, and the interval *)
(* is still the negative one.                                              *)
(***************************************************************************)
C13_NegativeIntervalRaises ==
  (Planned /\ args.isumfreq < 0)
    => /\ Last.stages = << "Probing", "Planning" >>
       /\ Last.oks[2] = "raised"
       /\ Last.ret = "raised"
       /\ pc = "raised"
       /\ v.isumfreq = args.isumfreq
       /\ v.numsnaps = 0
       /\ \A fld \in {"jpgdir", "gifdir", "gifsumdir", "mp4dir", "mp4sumpath",
                      "mp4tmppath", "mp4outpath"} : v[fld] = Unset
       /\ Dirs(fs) \ Dirs(fs0) \subseteq {v.outdir}
       /\ DOMAIN fs \ DOMAIN fs0 \subseteq {v.outdir}
       /\ trash = {}

C13_Witness ==
  /\ Planned
  /\ pc = "raised"
  /\ args.isumfreq = -30
  /\ v.vsum /\ v.isum
  /\ v.vseconds = 300

(***************************************************************************)
(* The constructed PyHecate object.                                        *)
(***************************************************************************)
Constructed == pc = "constructed"

\* a name ending, in any case, in ".mp4"
Mp4Name(n) ==
  /\ Len(n) >= 4
  /\ n[Len(n) - 3] = "."
  /\ n[Len(n) - 2] \in {"m", "M"}
  /\ n[Len(n) - 1] \in {"p", "P"}
  /\ n[Len(n)] = "4"

Vpaths == {ph.vpaths[k] : k \in 1..Len(ph.vpaths)}

DirRun == Constructed /\ args.dir_mode /\ args.path = InDirRel

AbsIn == << RootName, << "w" >>, << "i", "n" >> >>
AbsOut == << RootName, << "w" >>, << "o", "u", "t" >> >>

(***************************************************************************)
(* C14: in directory mode the video list holds exactly the direct entries  *)
(* of the input directory whose name ends, in any case, in ".mp4" (nothing *)
(* from subdirectories, nothing with another extension), each once and as  *)
(* an absolute path, in ascending order of the full path.                  *)
(***************************************************************************)
C14_DirectoryListing ==
  DirRun
    => /\ Vpaths = {Join(AbsIn, n) : n \in {m \in ListDir(fs, AbsIn) : Mp4Name(m)}}
       /\ Cardinality(Vpaths) = Len(ph.vpaths)
       /\ \A p \in Vpaths : IsAbs(p) /\ Len(p) = Len(AbsIn) + 1
       /\ \A j, k \in 1..Len(ph.vpaths) :
            j < k => StrLess(PathChars(ph.vpaths[j]), PathChars(ph.vpaths[k]))

C14_Witness ==
  /\ DirRun
  /\ ListDir(fs, AbsIn) = {NameAUpper, NameC, NameSub}
  /\ Exists(fs, Join(Join(AbsIn, NameSub), NameA))
  /\ ph.vpaths = << Join(AbsIn, NameAUpper), Join(AbsIn, NameSub) >>

(***************************************************************************)
(* C15 as stated: a directory holding a.mp4, B.MP4 and c.txt gives the     *)
(* video list [a.mp4, B.MP4].                                              *)
(***************************************************************************)
C15_LowerCaseFirst ==
  (DirRun /\ ListDir(fs, AbsIn) = {NameA, NameBUpper, NameC})
    => ph.vpaths = << Join(AbsIn, NameA), Join(AbsIn, NameBUpper) >>

(***************************************************************************)
(* C15: a directory holding a.mp4, B.MP4 and c.txt gives the video list    *)
(* [B.MP4, a.mp4]: c.txt is left out, and sorted() compares code points,   *)
(* so the upper-case name comes first.                                     *)
(***************************************************************************)
C15_UpperCaseFirst ==
  (DirRun /\ ListDir(fs, AbsIn) = {NameA, NameBUpper, NameC})
    => ph.vpaths = << Join(AbsIn, NameBUpper), Join(AbsIn, NameA) >>

C15_Witness ==
  /\ DirRun
  /\ ListDir(fs, AbsIn) = {NameA, NameBUpper, NameC}
  /\ Len(ph.vpaths) = 2
  /\ ph.vpaths[1] = Join(AbsIn, NameBUpper)

(***************************************************************************)
(* C16: for an existing input path, outdir is the absolute override when   *)
(* one is given, in either mode, and it is a directory afterwards; without *)
(* an override it is the absolute input path in directory mode and the     *)
(* parent directory of the input file in single-file mode.                 *)
(***************************************************************************)
C16_OutputRoot ==
  (Constructed /\ Exists(fs, args.path))
    => /\ args.outdir = OutOverride => ph.outdir = AbsOut
       /\ (args.outdir = Unset /\ args.dir_mode /\ args.path = InDirRel) => ph.outdir = AbsIn
       /\ (args.outdir = Unset /\ ~args.dir_mode /\ args.path = Join(AbsIn, NameA))
            => ph.outdir = AbsIn
       /\ (args.outdir = Unset /\ args.dir_mode /\ args.path = Join(AbsIn, NameA))
            => ph.outdir = Join(AbsIn, NameA)
       /\ (args.outdir = Unset /\ ~args.dir_mode /\ args.path = InDirRel)
            => ph.outdir = << RootName, << "w" >> >>
       /\ IsAbs(ph.outdir)
       /\ IsDir(fs, ph.outdir) \/ (args.outdir = Unset /\ args.dir_mode /\ IsFile(fs, args.path))

C16_Witness ==
  /\ Constructed
  /\ ~args.dir_mode
  /\ args.path = Join(AbsIn, NameA)
  /\ args.outdir = OutOverride
  /\ ph.outdir = AbsOut
  /\ IsDir(fs, AbsOut)
  /\ ph.vpaths = << Join(AbsIn, NameA) >>

(***************************************************************************)
(* C17: process_video() constructs the pipeline of the k-th video with     *)
(* outdir = self.outdir joined with the video's file name without its      *)
(* extension and with isumfreq, vsumlength, outro, vsum, isum and gifwidth *)
(* as the coordinator got them; it returns True when no stage that         *)
(* summarize() depends on failed, and False when one did.                  *)
(***************************************************************************)
C17_PipelineBinding ==
  /\ \A k \in 1..Len(runs) :
       /\ runs[k].vpath = ph.vpaths[k]
       /\ SplitHead(runs[k].outdir) = ph.outdir
       /\ \E ext \in {ExtMp4, << ".", "M", "P", "4" >>} :
            SplitTail(runs[k].vpath) = SplitTail(runs[k].outdir) \o ext
       /\ runs[k].ret = "True" => \A st \in {"Probing", "Summarizing", "Reorganizing"} :
                                     ~StageFailed(runs[k], st)
       /\ runs[k].ret = "False" => /\ \E st \in {"Probing", "Summarizing", "Reorganizing"} :
                                        StageFailed(runs[k], st)
                                   /\ ~all_successful
  /\ Len(runs) > 0
       => /\ v.path = Last.vpath
          /\ v.outdir = Last.outdir
          /\ v.isumfreq = args.isumfreq
          /\ v.vsumlength = args.vsumlength
          /\ v.outro = args.outro
          /\ v.vsum = args.vsum
          /\ v.isum = args.isum
          /\ v.gifwidth = args.gifwidth

C17_Witness ==
  /\ Len(runs) = 2
  /\ args.outdir = OutOverride
  /\ runs[1].vpath = Join(AbsIn, NameBUpper)
  /\ runs[1].outdir = Join(AbsOut, << "B" >>)
  /\ runs[1].ret = "False"
  /\ runs[2].outdir = Join(AbsOut, << "a" >>)
  /\ runs[2].ret = "True"
  /\ v.outro = OutroPath

(***************************************************************************)
(* C18 as stated: no two videos of one batch are bound to the same output  *)
(* directory, names that differ only in the case of the extension          *)
(* included.                                                               *)
(***************************************************************************)
C18_DistinctOutdirs ==
  \A j, k \in 1..Len(runs) :
    runs[j].vpath # runs[k].vpath => runs[j].outdir # runs[k].outdir

(***************************************************************************)
(* The probe on its own: one call of _get_video_meta on a freshly          *)
(* constructed PyHecateVideo, over a wider range of ffprobe answers.       *)
(***************************************************************************)
\* a stream that is neither video nor audio (subtitles, data)
DStream == [codec_type |-> "data", duration |-> 0, width |-> 0, height |-> 0]

Streams ==
  { VStream(30000, 640, 360), VStream(127, 320, 180), VStream(3000, 0, 360),
    VStream(50, 640, 0), AStream, DStream }

WideStreamLists == UNION {[1..n -> Streams] : n \in 0..MaxStreams}

WideResponses ==
  {[kind |-> k, streams |-> NoStreams] : k \in {"notfound", "nonzero", "badjson"}}
    \cup {[kind |-> "ok", streams |-> sl] : sl \in WideStreamLists}

InitProbe ==
  LET a == PlanArgs(ISUMFREQ, TRUE, TRUE)
      world == WorldFs({NameA}, FALSE)
      vpath == Join(InDir, NameA)
      voutdir == VideoOutdir(InDir, vpath)
  IN /\ args = a
     /\ fs = EnsureDir(world, voutdir)
     /\ trash = {}
     /\ ph = [outdir |-> Unset, vpaths |-> << >>]
     /\ pc = "unit"
     /\ idx = 0
     /\ all_successful = TRUE
     /\ result = FALSE
     /\ v = NewVideo(vpath, voutdir, a)
     /\ ometa = NoMeta
     /\ runs = << >>
     /\ fs0 = world
     /\ exit_code = NotExited
     /\ probed = NoProbe
     /\ hecate = NoHecate
     /\ mux = NoMux

\* meta = video._get_video_meta(video.path)
GetVideoMetaCall ==
  /\ pc = "unit"
  /\ probed = NoProbe
  /\ \E resp \in WideResponses, present \in BOOLEAN :
       probed' = [resp |-> resp, present |-> present, meta |-> GetVideoMeta(resp, present)]
  /\ UNCHANGED << args, fs, trash, ph, pc, idx, all_successful, result, v, ometa, runs,
                  fs0, exit_code, hecate, mux >>

SpecProbe == InitProbe /\ [][GetVideoMetaCall]_vars

VideoStreams(sl) == {k \in 1..Len(sl) : sl[k].codec_type = "video"}

Called == probed # NoProbe

(***************************************************************************)
(* C19: a result of _get_video_meta with success = True has vwidth > 0 and *)
(* vheight > 0, taken from a video stream of the answer; when ffprobe      *)
(* exits with 0 and its output parses, an answer without a video stream,   *)
(* or whose one video stream has width 0 or height 0, gives success =      *)
(* False.                                                                  *)
(***************************************************************************)
C19_SuccessHasDimensions ==
  Called
    => LET sl == probed.resp.streams
           m == probed.meta
       IN /\ m.success
               => /\ m.vwidth > 0
                  /\ m.vheight > 0
                  /\ \E k \in VideoStreams(sl) :
                       sl[k].width = m.vwidth /\ sl[k].height = m.vheight
          /\ (probed.resp.kind = "ok" /\ VideoStreams(sl) = {}) => ~m.success
          /\ (probed.resp.kind = "ok" /\ Cardinality(VideoStreams(sl)) = 1
                /\ \E k \in VideoStreams(sl) : sl[k].width = 0 \/ sl[k].height = 0)
               => ~m.success

C19_Witness ==
  /\ Called
  /\ probed.resp.kind = "ok"
  /\ probed.present
  /\ probed.resp.streams = << AStream, VStream(50, 640, 0) >>
  /\ ~probed.meta.success

(***************************************************************************)
(* C20 as stated: whenever _get_video_meta returns success = False, for    *)
(* whichever cause, vseconds, vwidth and vheight of the result are all 0.  *)
(***************************************************************************)
C20_FailureIsZeroed ==
  (Called /\ ~probed.meta.success)
    => /\ probed.meta.vseconds = 0
       /\ probed.meta.vwidth = 0
       /\ probed.meta.vheight = 0

(***************************************************************************)
(* The external calls of the current pipeline.                             *)
(***************************************************************************)
MuxBuilt == mux.kind # "none"

MuxFailed == mux.kind \in {"setup", "raised", "nonzero"}

HecateCalled == hecate.kind # "none"

(***************************************************************************)
(* C21: the concatenation request of add_outro() joins the summary and the *)
(* outro into mp4outpath with one video track; it has an audio track as    *)
(* well (a = 1, two output tracks) when both self.vaudio and the outro's   *)
(* probed vaudio are true, and none (one output track) when either is      *)
(* false.                                                                  *)
(***************************************************************************)
C21_ConcatTracks ==
  MuxBuilt
    => /\ mux.req.in1 = v.mp4sumpath
       /\ mux.req.in2 = v.outro
       /\ mux.req.output = v.mp4outpath
       /\ mux.req.v = 1
       /\ (v.vaudio /\ ometa.vaudio) => (mux.req.a = 1 /\ mux.req.tracks = 2)
       /\ (~v.vaudio \/ ~ometa.vaudio) => (mux.req.a = 0 /\ mux.req.tracks = 1)

C21_Witness ==
  /\ mux.kind = "ok"
  /\ v.vaudio
  /\ ~ometa.vaudio
  /\ mux.req.tracks = 1

(***************************************************************************)
(* C22: when the concatenation of add_outro() failed (setting it up or     *)
(* running it raised, or ffmpeg exited with a code other than 0),          *)
(* add_outro() has returned False and no file is at mp4outpath: what       *)
(* ffmpeg wrote there, or what was there before, is in the trash.          *)
(***************************************************************************)
C22_FailedConcatLeavesNoOutput ==
  MuxFailed
    => /\ Last.stages = StageOrder
       /\ Last.oks[5] = "failed"
       /\ ~Exists(fs, v.mp4outpath)
       /\ mux.wrote => << v.mp4outpath, FileEntry("ffmpeg", Len(runs)) >> \in trash
       /\ (~mux.wrote /\ Exists(fs0, v.mp4outpath))
            => << v.mp4outpath, fs0[v.mp4outpath] >> \in trash

C22_Witness ==
  /\ mux.kind = "nonzero"
  /\ mux.wrote
  /\ Last.ret = "True"
  /\ << v.mp4outpath, FileEntry("ffmpeg", 1) >> \in trash
  /\ ~Exists(fs, v.mp4outpath)

(***************************************************************************)
(* Reorganizing on its own: summarize() is about to call cleanup_folders() *)
(* on an object whose layout fields were set, or left unset, by hand, over *)
(* an output root holding any selection of the files hecate may have       *)
(* written and a file of another kind.                                     *)
(***************************************************************************)
CleanVpath == Join(InDir, NameA)
CleanOutdir == VideoOutdir(InDir, CleanVpath)
CleanStem == SplitTail(CleanOutdir)

ShotName(k, ext) == CleanStem \o << "_" >> \o IntStr(k) \o ext
NoteName == << "n", "o", "t", "e", ".", "t", "x", "t" >>

RootNames ==
  {ShotName(k, ExtJpg) : k \in 0..(MaxShots - 1)}
    \cup {ShotName(k, ExtGif) : k \in 0..(MaxShots - 1)}
    \cup {CleanStem \o SufSumGif, CleanStem \o SufSumMp4, NoteName}

CleanFields == {"jpgdir", "gifdir", "gifsumdir", "mp4tmppath", "mp4sumpath"}

\* the object with every layout field set, as prep_outfolders() sets them
\* with both features on
CleanPlanned ==
  PrepVideo(StoreMeta(NewVideo(CleanVpath, CleanOutdir, PlanArgs(ISUMFREQ, TRUE, TRUE)),
                      VideoMetadata(TRUE, 300, 640, 360, TRUE)))

InitCleanup ==
  \E vsum \in BOOLEAN, isum \in BOOLEAN, unset \in SUBSET CleanFields,
     names \in SUBSET RootNames :
    LET vid == [fld \in DOMAIN CleanPlanned |->
                  IF fld \in unset THEN Unset
                  ELSE IF fld = "vsum" THEN vsum
                  ELSE IF fld = "isum" THEN isum
                  ELSE CleanPlanned[fld]]
        dirs == PrepFs(CleanPlanned, EnsureDir(WorldFs({NameA}, FALSE), CleanOutdir))
        new == {Join(CleanOutdir, n) : n \in names}
    IN /\ args = PlanArgs(ISUMFREQ, vsum, isum)
       /\ fs = [q \in DOMAIN dirs \cup new |->
                  IF q \in new THEN FileEntry("hecate", 1) ELSE dirs[q]]
       /\ trash = {}
       /\ ph = [outdir |-> InDir, vpaths |-> << CleanVpath >>]
       /\ pc = "reorganizing"
       /\ idx = 1
       /\ all_successful = TRUE
       /\ result = FALSE
       /\ v = vid
       /\ ometa = NoMeta
       /\ runs = Logged(Logged(Logged(<< NewRun(CleanVpath, CleanOutdir) >>,
                   "Probing", "ok"), "Planning", "ok"), "Summarizing", "ok")
       /\ fs0 = fs
       /\ exit_code = NotExited
       /\ probed = NoProbe
       /\ hecate = NoHecate
       /\ mux = NoMux

SpecCleanup == InitCleanup /\ [][CleanupFolders]_vars

\* cleanup_folders() has returned; fs0 is the file system it was called on
Cleaned == Len(runs) > 0 /\ Len(Last.stages) >= 4
CleanedOk == Cleaned /\ Last.oks[4] = "ok"

InRoot(f) == {p \in DOMAIN f : SplitHead(p) = v.outdir /\ f[p].kind = "file"}

HasExt(p, ext) ==
  LET n == SplitTail(p)
  IN Len(n) > Len(ext) /\ SubSeq(n, Len(n) - Len(ext) + 1, Len(n)) = ext

SumGifPath == Join(v.outdir, v.base \o << "_", "s", "u", "m", ".", "g", "i", "f" >>)
RawSumPath == Join(v.outdir, v.base \o << "_", "s", "u", "m", ".", "m", "p", "4" >>)

ImageFieldsSet == v.jpgdir # Unset /\ v.gifdir # Unset /\ v.gifsumdir # Unset
VideoFieldsSet == v.mp4tmppath # Unset /\ v.mp4sumpath # Unset

(***************************************************************************)
(* C23: after cleanup_folders() returned True with both features on, no    *)
(* .jpg and no .gif file is left directly in the output root; every JPG    *)
(* that was there is in jpgdir, <base>_sum.gif is in gifsumdir and not in  *)
(* gifdir, every other GIF is in gifdir, and the raw summary               *)
(* <base>_sum.mp4 is gone from the root and at mp4sumpath; other files     *)
(* stay where they were.                                                   *)
(***************************************************************************)
C23_Reorganized ==
  (CleanedOk /\ v.isum /\ v.vsum)
    => /\ \A p \in InRoot(fs) : ~HasExt(p, ExtJpg) /\ ~HasExt(p, ExtGif)
       /\ \A p \in InRoot(fs0) :
            /\ HasExt(p, ExtJpg) => IsFile(fs, Join(v.jpgdir, SplitTail(p)))
            /\ p = SumGifPath
                 => /\ IsFile(fs, Join(v.gifsumdir, SplitTail(p)))
                    /\ ~Exists(fs, Join(v.gifdir, SplitTail(p)))
            /\ (HasExt(p, ExtGif) /\ p # SumGifPath)
                 => /\ IsFile(fs, Join(v.gifdir, SplitTail(p)))
                    /\ ~Exists(fs, Join(v.gifsumdir, SplitTail(p)))
            /\ p = RawSumPath => (~Exists(fs, p) /\ IsFile(fs, v.mp4sumpath))
            /\ (~HasExt(p, ExtJpg) /\ ~HasExt(p, ExtGif) /\ p # RawSumPath)
                 => (p \in DOMAIN fs /\ fs[p] = fs0[p])
       /\ Cardinality({p \in DOMAIN fs : fs[p].kind = "file"})
            = Cardinality({p \in DOMAIN fs0 : fs0[p].kind = "file"})

C23_Witness ==
  /\ CleanedOk
  /\ v.isum /\ v.vsum
  /\ {SplitTail(p) : p \in InRoot(fs0)} = RootNames
  /\ InRoot(fs) = {Join(v.outdir, NoteName)}
  /\ Last.ret = "True"

(***************************************************************************)
(* C24: cleanup_folders() called with the layout fields set on an output   *)
(* root that holds no JPG, no GIF and no raw summary returns True, without *)
(* an exception, and moves nothing.                                        *)
(***************************************************************************)
C24_NothingToMove ==
  (/\ Cleaned
   /\ ImageFieldsSet
   /\ VideoFieldsSet
   /\ \A p \in InRoot(fs0) : ~HasExt(p, ExtJpg) /\ ~HasExt(p, ExtGif) /\ p # RawSumPath)
    => /\ Last.oks[4] = "ok"
       /\ Last.ret = "True"
       /\ pc = "done"
       /\ fs = fs0
       /\ trash = {}

C24_Witness ==
  /\ Cleaned
  /\ v.isum /\ v.vsum
  /\ ImageFieldsSet /\ VideoFieldsSet
  /\ InRoot(fs0) = {Join(v.outdir, NoteName)}
  /\ fs = fs0
  /\ Last.ret = "True"

(***************************************************************************)
(* C25: when image generation is on and one of jpgdir, gifdir, gifsumdir   *)
(* is unset, or video-summary generation is on and mp4tmppath or           *)
(* mp4sumpath is unset, cleanup_folders() returns False - no exception     *)
(* leaves it - and summarize() returns False. (The video fields are tested *)
(* after the images have been moved: only an OSError of one of those moves *)
(* can come before the False.)                                             *)
(***************************************************************************)
C25_UnsetLayoutFails ==
  (/\ Cleaned
   /\ \/ v.isum /\ ~ImageFieldsSet
      \/ v.vsum /\ ~VideoFieldsSet /\ Last.oks[4] # "raised")
    => /\ Last.stages = CoreStages
       /\ Last.oks[4] = "failed"
       /\ Last.ret = "False"
       /\ pc = "done"
       /\ result = FALSE

C25_Witness ==
  /\ Cleaned
  /\ v.isum /\ ImageFieldsSet
  /\ v.vsum /\ v.mp4tmppath # Unset /\ v.mp4sumpath = Unset
  /\ Last.ret = "False"
  /\ Exists(fs0, RawSumPath)
  /\ Exists(fs, RawSumPath)

(***************************************************************************)
(* C30: cleanup_folders() leaves the files of a feature that is off alone: *)
(* with image generation off the JPG and GIF files of the output root stay *)
(* in place; with video-summary generation off the raw summary             *)
(* <base>_sum.mp4 stays in the root and no file appears at the final       *)
(* summary path.                                                           *)
(***************************************************************************)
C30_DisabledFeatureUntouched ==
  Cleaned
    => /\ ~v.isum
            => \A p \in InRoot(fs0) :
                 (HasExt(p, ExtJpg) \/ HasExt(p, ExtGif))
                   => /\ p \in DOMAIN fs /\ fs[p] = fs0[p]
                      /\ \A d \in {CleanPlanned.jpgdir, CleanPlanned.gifdir,
                                   CleanPlanned.gifsumdir} :
                           ~Exists(fs, Join(d, SplitTail(p)))
       /\ ~v.vsum
            => /\ Exists(fs0, RawSumPath)
                    => (RawSumPath \in DOMAIN fs /\ fs[RawSumPath] = fs0[RawSumPath])
               /\ ~Exists(fs, CleanPlanned.mp4sumpath)
       /\ (~v.isum /\ ~v.vsum) => fs = fs0

C30_Witness ==
  /\ Cleaned
  /\ ~v.isum /\ v.vsum
  /\ ImageFieldsSet /\ VideoFieldsSet
  /\ {SplitTail(p) : p \in InRoot(fs0)} = RootNames
  /\ {SplitTail(p) : p \in InRoot(fs)} = RootNames \ {CleanStem \o SufSumMp4}
  /\ IsFile(fs, v.mp4sumpath)

(***************************************************************************)
(* C26 as stated: _get_video_meta takes duration, width and height from    *)
(* the first video stream of ffprobe's answer, and vaudio is true exactly  *)
(* when some stream is an audio stream.                                    *)
(***************************************************************************)
C26_FirstVideoStream ==
  (Called /\ probed.resp.kind = "ok" /\ probed.present)
    => LET sl == probed.resp.streams
           m == probed.meta
       IN /\ m.vaudio <=> \E k \in 1..Len(sl) : sl[k].codec_type = "audio"
          /\ VideoStreams(sl) # {}
               => LET first == CHOOSE k \in VideoStreams(sl) :
                                 \A j \in VideoStreams(sl) : k <= j
                  IN /\ m.vwidth = sl[first].width
                     /\ m.vheight = sl[first].height
                     /\ m.vseconds * 10 <= sl[first].duration
                     /\ sl[first].duration < (m.vseconds + 1) * 10

(***************************************************************************)
(* Names of the layout, for a video 640 pixels wide.                       *)
(***************************************************************************)
JpgDirName == << "j", "p", "g", "-", "6", "4", "0" >>
GifDirName == << "g", "i", "f", "-", "3", "6", "0" >>
GifsumDirName == << "g", "i", "f", "s", "u", "m", "-", "3", "6", "0" >>
Mp4DirName == << "m", "p", "4", "-", "1", "6" >>
SumSuffix == << "_", "s", "u", "m", "-", "1", "6", ".", "m", "p", "4" >>
OutsumSuffix == << "_", "o", "u", "t", "s", "u", "m", "-", "1", "6", ".", "m", "p", "4" >>

PlannedOk == Planned /\ Last.oks[2] = "ok"

Created == Dirs(fs) \ Dirs(fs0)

(***************************************************************************)
(* C27: after prep_outfolders() has run, jpgdir, gifdir and gifsumdir are  *)
(* set, to directories that exist, exactly when isum is on, and mp4dir,    *)
(* mp4tmppath, mp4sumpath and mp4outpath are set, with the mp4 directory   *)
(* existing, exactly when vsum is on; the fields of a feature that is off  *)
(* stay unset and its directories are not created.                         *)
(***************************************************************************)
C27_LayoutFollowsFlags ==
  PlannedOk
    => /\ v.isum
            => /\ v.jpgdir = Join(v.outdir, JpgDirName)
               /\ v.gifdir = Join(v.outdir, GifDirName)
               /\ v.gifsumdir = Join(v.outdir, GifsumDirName)
               /\ \A d \in {v.jpgdir, v.gifdir, v.gifsumdir} : IsDir(fs, d)
       /\ ~v.isum
            => /\ v.jpgdir = Unset /\ v.gifdir = Unset /\ v.gifsumdir = Unset
               /\ \A n \in {JpgDirName, GifDirName, GifsumDirName} :
                    Join(v.outdir, n) \notin Created
       /\ v.vsum
            => /\ v.mp4dir = Join(v.outdir, Mp4DirName)
               /\ v.mp4tmppath = Join(v.outdir, v.base \o SufSumMp4)
               /\ v.mp4sumpath = Join(v.mp4dir, v.base \o SumSuffix)
               /\ v.mp4outpath = Join(v.mp4dir, v.base \o OutsumSuffix)
               /\ IsDir(fs, v.mp4dir)
       /\ ~v.vsum
            => /\ v.mp4dir = Unset /\ v.mp4tmppath = Unset
               /\ v.mp4sumpath = Unset /\ v.mp4outpath = Unset
               /\ Join(v.outdir, Mp4DirName) \notin Created
       /\ v.isum = args.isum
       /\ v.vsum = args.vsum

C27_Witness ==
  /\ PlannedOk
  /\ pc = "summarizing"
  /\ v.isum /\ ~v.vsum
  /\ IsDir(fs, Join(v.outdir, GifsumDirName))
  /\ ~Exists(fs, Join(v.outdir, Mp4DirName))
  /\ v.mp4sumpath = Unset

(***************************************************************************)
(* C28: with vsum on, no file is at <outdir>/<base>_sum.mp4 when hecate is *)
(* about to be called: one that was there when the pipeline started is in  *)
(* the trash; a raw summary that cleanup_folders() finds was written by    *)
(* the hecate call of this pipeline.                                       *)
(***************************************************************************)
C28_CleanSlate ==
  (Len(runs) > 0 /\ v.vsum)
    => LET tmp == Join(v.outdir, v.base \o SufSumMp4)
       IN /\ pc = "summarizing"
               => /\ ~Exists(fs, tmp)
                  /\ Exists(fs0, tmp) => << tmp, fs0[tmp] >> \in trash
          /\ (pc = "reorganizing" /\ Exists(fs, tmp))
               => fs[tmp] = FileEntry("hecate", Len(runs))

C28_Witness ==
  /\ pc = "reorganizing"
  /\ v.vsum
  /\ Exists(fs0, PriorTmp)
  /\ << PriorTmp, FileEntry("prior", 0) >> \in trash
  /\ Exists(fs, PriorTmp)
  /\ fs[PriorTmp] = FileEntry("hecate", 1)

(***************************************************************************)
(* C29: the command of run_hecate() carries the input path and the output  *)
(* root; the movie flags, with vsumlength and vwidth, exactly when vsum is *)
(* on; the image flags, with numsnaps, vwidth and gifwidth, exactly when   *)
(* isum is on. run_hecate() returns True when hecate exited with 0 and     *)
(* False when it was not found or exited with another code.                *)
(***************************************************************************)
C29_HecateCommand ==
  HecateCalled
    => LET c == hecate.cmd
       IN /\ c.in_video = v.path
          /\ c.out_dir = v.outdir
          /\ c.generate_mov <=> v.vsum
          /\ v.vsum => (c.lmov = args.vsumlength /\ c.mov_width_px = v.vwidth)
          /\ ~v.vsum => (c.lmov = 0 /\ c.mov_width_px = 0)
          /\ c.generate_jpg <=> v.isum
          /\ c.generate_gifall <=> v.isum
          /\ c.generate_gifsum <=> v.isum
          /\ v.isum => /\ c.njpg = v.numsnaps
                       /\ c.ngif = v.numsnaps
                       /\ c.jpg_width_px = v.vwidth
                       /\ c.gif_width_px = args.gifwidth
          /\ ~v.isum => (c.njpg = 0 /\ c.ngif = 0 /\ c.jpg_width_px = 0 /\ c.gif_width_px = 0)
          /\ v.vwidth > 0 /\ v.numsnaps >= 10
          /\ Len(Last.stages) >= 3
          /\ Last.oks[3] = "ok" <=> hecate.kind = "ok"
          /\ hecate.kind \in {"notfound", "nonzero"}
               => (Last.oks[3] = "failed" /\ Last.ret = "False")

C29_Witness ==
  /\ HecateCalled
  /\ hecate.kind = "nonzero"
  /\ hecate.wrote
  /\ hecate.cmd.generate_mov
  /\ ~hecate.cmd.generate_jpg
  /\ hecate.cmd.lmov = 16
  /\ hecate.cmd.mov_width_px = 640
  /\ Last.ret = "False"

(***************************************************************************)
(* C31: an OSError of a shutil.move in cleanup_folders() is not turned     *)
(* into a False result - False comes only from the test of the layout      *)
(* fields; the error leaves cleanup_folders() and summarize() as an        *)
(* exception, and the files moved before it stay where they were moved     *)
(* to, the others where they were.                                         *)
(***************************************************************************)
MovedOrInPlace(p) ==
  \/ p \in DOMAIN fs /\ fs[p] = fs0[p]
  \/ /\ ~Exists(fs, p)
     /\ \E q \in {Join(CleanPlanned.jpgdir, SplitTail(p)),
                  Join(CleanPlanned.gifdir, SplitTail(p)),
                  Join(CleanPlanned.gifsumdir, SplitTail(p)),
                  CleanPlanned.mp4sumpath} :
          q \notin DOMAIN fs0 /\ q \in DOMAIN fs /\ fs[q] = fs0[p]

C31_MoveErrorPropagates ==
  Cleaned
    => /\ Last.oks[4] = "failed"
            => ((v.isum /\ ~ImageFieldsSet) \/ (v.vsum /\ ~VideoFieldsSet))
       /\ Last.oks[4] = "raised"
            => /\ pc = "raised"
               /\ Last.ret = "raised"
               /\ Last.stages = CoreStages
               /\ \A p \in InRoot(fs0) : MovedOrInPlace(p)
               /\ \E p \in InRoot(fs0) : p \in DOMAIN fs
               /\ Cardinality(DOMAIN fs) = Cardinality(DOMAIN fs0)

C31_Witness ==
  /\ Cleaned
  /\ Last.oks[4] = "raised"
  /\ pc = "raised"
  /\ {SplitTail(p) : p \in InRoot(fs0)} = RootNames
  /\ {SplitTail(p) : p \in InRoot(fs)} = {CleanStem \o SufSumMp4, NoteName}
  /\ IsFile(fs, Join(CleanPlanned.jpgdir, ShotName(0, ExtJpg)))

(***************************************************************************)
(* add_outro() on its own: summarize() is about to call add_outro() on an  *)
(* object whose outro, mp4sumpath and mp4outpath were set, or left unset,  *)
(* by hand; the outro file, the final summary and an outro-appended        *)
(* summary of an earlier run may or may not exist.                         *)
(***************************************************************************)
OutroFields == {"outro", "mp4sumpath", "mp4outpath"}

InitOutro ==
  \E unset \in SUBSET OutroFields, vaudio \in BOOLEAN,
     present \in SUBSET {OutroPath, CleanPlanned.mp4sumpath, CleanPlanned.mp4outpath} :
    LET vid == [fld \in DOMAIN CleanPlanned |->
                  IF fld \in unset THEN Unset
                  ELSE IF fld = "outro" THEN OutroPath
                  ELSE IF fld = "vaudio" THEN vaudio
                  ELSE CleanPlanned[fld]]
        dirs == PrepFs(CleanPlanned, EnsureDir(WorldFs({NameA}, FALSE), CleanOutdir))
    IN /\ args = [PlanArgs(ISUMFREQ, TRUE, TRUE) EXCEPT !.outro = vid.outro]
       /\ fs = [q \in DOMAIN dirs \cup present |->
                  IF q \in present THEN FileEntry("prior", 0) ELSE dirs[q]]
       /\ trash = {}
       /\ ph = [outdir |-> InDir, vpaths |-> << CleanVpath >>]
       /\ pc = "outro_probe"
       /\ idx = 1
       /\ all_successful = TRUE
       /\ result = FALSE
       /\ v = vid
       /\ ometa = NoMeta
       /\ runs = Logged(Logged(Logged(Logged(<< NewRun(CleanVpath, CleanOutdir) >>,
                   "Probing", "ok"), "Planning", "ok"), "Summarizing", "ok"),
                   "Reorganizing", "ok")
       /\ fs0 = fs
       /\ exit_code = NotExited
       /\ probed = NoProbe
       /\ hecate = NoHecate
       /\ mux = NoMux

SpecOutro == InitOutro /\ [][AddOutroProbe \/ AddOutroMux]_vars

\* add_outro() has returned; fs0 is the file system it was called on
OutroReturned == Len(runs) > 0 /\ Len(Last.stages) = 5

ExternalCalls == {"probing", "summarizing", "outro_probe", "outro_mux"}

\* the positions inside a pipeline
PipelinePcs == ExternalCalls \cup {"planning", "reorganizing"}

(***************************************************************************)
(* C33: a batch is processed sequentially: the k-th pipeline started is    *)
(* that of vpaths[k], every pipeline but the last started has returned or  *)
(* raised, and an external process is only ever waited for by the one      *)
(* pipeline that has not returned, which is the one of the loop's current  *)
(* position.                                                               *)
(***************************************************************************)
C33_Sequential ==
  /\ Len(runs) <= Len(ph.vpaths)
  /\ \A k \in 1..Len(runs) :
       /\ runs[k].vpath = ph.vpaths[k]
       /\ k < Len(runs) => runs[k].ret \in {"True", "False"}
  /\ pc \in PipelinePcs
       => /\ Len(runs) = idx
          /\ Last.ret = "running"
  /\ (Len(runs) > 0 /\ Last.ret = "running") => pc \in PipelinePcs
  /\ pc = "process" => /\ Len(runs) = idx - 1
                       /\ \A k \in 1..Len(runs) : runs[k].ret # "running"

C33_Witness ==
  /\ Len(runs) = 3
  /\ pc = "outro_mux"
  /\ runs[1].ret = "False"
  /\ runs[2].ret = "True"
  /\ runs[1].vpath # runs[2].vpath

\* summarize() has called add_outro() in the current pipeline
OutroCalled ==
  /\ Len(runs) > 0
  /\ \/ pc \in {"outro_probe", "outro_mux"}
     \/ Len(Last.stages) = 5

\* the file at p was written by the summarizer of the current pipeline
FromThisRun(p) ==
  /\ IsFile(fs, p)
  /\ fs[AbsPath(p)].by = "hecate"
  /\ fs[AbsPath(p)].run = Len(runs)

(***************************************************************************)
(* C34: whenever summarize() calls add_outro(), the file at mp4sumpath is  *)
(* the raw summary the summarizer of this pipeline wrote and Reorganizing  *)
(* moved there; a summary left there by an earlier run never gets an outro *)
(* appended.                                                               *)
(***************************************************************************)
C34_OutroOnFreshSummary ==
  OutroCalled => FromThisRun(v.mp4sumpath)

\* summarize() has returned True for the current pipeline
SummarizeTrue == Len(runs) > 0 /\ Last.ret = "True"

(***************************************************************************)
(* C35: when summarize() has returned True and the video summary is        *)
(* enabled, a file is at mp4sumpath, whatever a summarizer that exits with *)
(* code 0 has written.                                                     *)
(***************************************************************************)
C35_TrueMeansSummaryExists ==
  (SummarizeTrue /\ v.vsum) => IsFile(fs, v.mp4sumpath)

\* summarize() is about to call cleanup_folders()
AtCleanup == pc = "reorganizing"

(***************************************************************************)
(* C36: in a run of summarize() on an object built by process_video(),     *)
(* when cleanup_folders() is reached every layout field of an enabled      *)
(* feature has been set by prep_outfolders(), whichever of vsum and isum   *)
(* are on, and cleanup_folders() never returns False.                      *)
(***************************************************************************)
C36_LayoutSetAtCleanup ==
  /\ AtCleanup
       => /\ v.isum => ImageFieldsSet
          /\ v.vsum => VideoFieldsSet
          /\ CleanupOk(v)
  /\ Cleaned => Last.oks[4] # "failed"

C36_Witness ==
  /\ CleanedOk
  /\ v.isum /\ ~v.vsum
  /\ ImageFieldsSet
  /\ ~VideoFieldsSet
  /\ \E p \in DOMAIN fs : SplitHead(p) = v.gifsumdir /\ fs[p].kind = "file"

\* summarize() is about to call run_hecate(), or has called it
AtHecate == pc = "summarizing" \/ HecateCalled

\* the directories of the enabled features
FeatureDirs ==
  (IF v.isum THEN {v.jpgdir, v.gifdir, v.gifsumdir} ELSE {})
    \cup (IF v.vsum THEN {v.mp4dir} ELSE {})

(***************************************************************************)
(* C37: when summarize() calls run_hecate(), the probe of the input has    *)
(* succeeded, vwidth is above 0, the snapshot interval is not negative,    *)
(* numsnaps is at least 10 and the directory of every enabled feature      *)
(* exists; the command never carries a zero width.                         *)
(***************************************************************************)
C37_HecatePreconditions ==
  AtHecate
    => /\ v.vmeta
       /\ v.vwidth > 0
       /\ v.isumfreq >= 0
       /\ v.numsnaps >= 10
       /\ Last.stages[1] = "Probing" /\ Last.oks[1] = "ok"
       /\ Last.stages[2] = "Planning" /\ Last.oks[2] = "ok"
       /\ \A d \in FeatureDirs : d # Unset /\ IsDir(fs, d)
       /\ HecateCalled
            => /\ hecate.cmd.generate_mov => hecate.cmd.mov_width_px > 0
               /\ hecate.cmd.generate_jpg
                    => (hecate.cmd.jpg_width_px > 0 /\ hecate.cmd.njpg >= 10)

C37_Witness ==
  /\ HecateCalled
  /\ hecate.kind = "ok"
  /\ v.vsum /\ v.isum
  /\ v.isumfreq = 0
  /\ v.numsnaps = 10
  /\ Cardinality(FeatureDirs) = 4
  /\ FeatureDirs \cap Dirs(fs0) = {}

\* summarize() has returned for the current pipeline
SummarizeReturned == Len(runs) > 0 /\ Last.ret \in {"True", "False"}

(***************************************************************************)
(* C38: after summarize() has returned, a file is at mp4outpath only if    *)
(* add_outro() succeeded in this pipeline; a file an earlier run left      *)
(* there does not survive a pipeline whose outro step was skipped or       *)
(* failed at the probe of the outro.                                       *)
(***************************************************************************)
C38_OutputOnlyFromThisRun ==
  (SummarizeReturned /\ v.mp4outpath # Unset /\ Exists(fs, v.mp4outpath))
    => mux.kind = "ok"

(***************************************************************************)
(* C39: every path of the resolved video list is a regular file: in        *)
(* directory mode a subdirectory whose name ends in ".mp4" is not listed,  *)
(* and in single-file mode a path that is no regular file gives an empty   *)
(* list.                                                                   *)
(***************************************************************************)
C39_VpathsAreFiles ==
  Constructed
    => /\ \A p \in Vpaths : IsFile(fs, p)
       /\ (~args.dir_mode /\ ~IsFile(fs, args.path)) => ph.vpaths = << >>
====
